---- MODULE Spec2Model ----
(***************************************************************************)
(* Persistence layer of the framework: the generic Record, the reference   *)
(* InMemoryStorage backend (a map id -> serialised record plus a list of   *)
(* (tag_key, (tag_value, id)) entries) and the two repositories that wrap  *)
(* a backend, ConnectionRepository and DidRepository.                      *)
(*                                                                         *)
(* One storage instance is modelled at a time.  `owner` says how it is     *)
(* used: directly through the VCXFrameworkStorage trait (as the unit tests *)
(* of in_memory_storage.rs do), or moved into a ConnectionRepository or a  *)
(* DidRepository, which then is the only way to reach it.                  *)
(*                                                                         *)
(* Messaging layer: the TransportRegistry with its scheme parsing and the  *)
(* HTTP transport, and the two MessagingService implementations of the     *)
(* repository, the one of vcx_framework (send_message by connection id)    *)
(* and the one of aries_framework_vcx (send_message by DIDs, with the      *)
(* event senders).                                                         *)
(***************************************************************************)
EXTENDS Integers, Sequences, FiniteSets, TLC

(* Bounds of the model: record ids are 1..MaxId, tag values 1..MaxTagValue. *)
MaxId == 2
MaxTagValue == 2

VARIABLES
    owner,    \* how the storage is used: directly, or inside a repository
    records,  \* InMemoryStorage.records: id -> serialised record
    tags,     \* InMemoryStorage.tags: the list of (tag_key, (tag_value, id))
    last,     \* the latest call and what it returned
    written,  \* history: per id, the record its latest successful write stored
    transports,     \* TransportRegistry.transports: the schemes a transport is registered for
    calls,          \* the calls the latest operation made on its collaborators, in order
    event_senders,  \* MessagingService.event_senders: the subscribers, in registration order
    received,       \* per subscriber, the events its receiver holds, oldest first
    tasks,          \* per task that calls the connection service, where it is in its call
    inviter         \* the state of the mediated-connection inviter state machine

vars ==
    <<owner, records, tags, last, written, transports, calls, event_senders, received,
      tasks, inviter>>

(* The state of the persistence layer, and the state of the messaging layer. *)
storagevars == <<owner, records, tags, written>>

msgvars == <<transports, calls, event_senders, received>>

turnvars == <<tasks, inviter>>

(***************************************************************************)
(* Types                                                                   *)
(***************************************************************************)
Ids == 1..MaxId

TagValues == 1..MaxTagValue

(* The tag-key enums of the source. *)
TestTagKeys == <<"TestKey">>

ConnectionRecordTagKeys == <<"OurDid", "TheirDid">>

DidRecordTagKeys == <<"KeyAgreementKey">>

(* The tag-key enum TK the storage is instantiated with, in declaration order. *)
TK(o) ==
    CASE o = "ConnectionRepository" -> ConnectionRecordTagKeys
      [] o = "DidRepository" -> DidRecordTagKeys
      [] OTHER -> TestTagKeys

TKSet(o) == {TK(o)[i] : i \in 1..Len(TK(o))}

(* Payloads D.  The storage never inspects the payload, it only serialises it. *)
(* The tests instantiate D with TestRecord { value: String } and use the       *)
(* values "foo" and "foo2"; the repositories store DIDs.  All of them          *)
(* serialise; "unserializable" stands for a payload of a type whose Serialize  *)
(* implementation fails, which none of these instantiations holds.             *)
Data(o) == {"foo", "foo2"}

Serializable(data) == data # "unserializable"

(* HashMap<TK, String> *)
TagMaps(o) == UNION {[S -> TagValues] : S \in SUBSET TKSet(o)}

(* Record<D, TK> *)
Records(o) == [id : Ids, data : Data(o), tags : TagMaps(o)]

(* The iteration orders a HashMap over the keys S may have. *)
Orders(S) ==
    {s \in [1..Cardinality(S) -> S] : \A a \in S : \E i \in 1..Cardinality(S) : s[i] = a}

(* The arguments a call may be given, per instantiation of the storage. *)
StorageRecords == Records("InMemoryStorage")

(* Records of an instantiation of D whose Serialize implementation fails. *)
UnserializableRecords ==
    [id : Ids, data : {"unserializable"}, tags : TagMaps("InMemoryStorage")]

(* The records a caller of the generic storage may pass. *)
StorageInputs == StorageRecords \cup UnserializableRecords

StorageOrders == Orders(TKSet("InMemoryStorage"))

StorageTagKeys == TKSet("InMemoryStorage")

ConnectionRecords == Records("ConnectionRepository")

ConnectionOrders == Orders(TKSet("ConnectionRepository"))

ConnectionTagKeys == TKSet("ConnectionRepository")

DidRecords == Records("DidRepository")

DidOrders == Orders(TKSet("DidRepository"))

DidTagKeys == TKSet("DidRepository")

(* The iteration orders the `records` HashMap may have. *)
IdOrders == Orders(Ids)

None == <<>>

Some(x) == <<x>>

Ok == <<"Ok">>

Err(e) == <<e>>

(* map_err(Wrapper): a repository error variant wrapping the storage error *)
Wrap(variant, result) == IF result = Ok THEN Ok ELSE <<variant>> \o result

Range(s) == {s[i] : i \in 1..Len(s)}

(***************************************************************************)
(* Record                                                                  *)
(***************************************************************************)
(* The keys of a tag map in the iteration order `ord`. *)
KeysInOrder(rtags, ord) == SelectSeq(ord, LAMBDA k : k \in DOMAIN rtags)

(* serde_json::to_string(record): a JSON object with the id, the data and the  *)
(* tags as a list of key/value members in the map's iteration order; None when *)
(* the payload does not serialise (StorageError::Serialization).               *)
to_string_drops_tags(record, ord) ==
    IF Serializable(record.data)
    THEN Some(<<record.id, record.data, <<>>>>)
    ELSE None

to_string(record, ord) ==
    IF Serializable(record.data)
    THEN LET ks == KeysInOrder(record.tags, ord)
         IN Some(<<record.id, record.data,
                   [i \in 1..Len(ks) |-> <<ks[i], record.tags[ks[i]]>>]>>)
    ELSE None

(* serde_json::from_str: the record a serialised string denotes. *)
from_string(string) ==
    LET members == string[3]
    IN [id |-> string[1],
        data |-> string[2],
        tags |-> [k \in {members[i][1] : i \in 1..Len(members)} |->
                    LET i == CHOOSE j \in 1..Len(members) : members[j][1] = k
                    IN members[i][2]]]

(***************************************************************************)
(* InMemoryStorage                                                         *)
(***************************************************************************)
(* HashMap::insert / HashMap::remove on `records` *)
Insert(recs, id, string) ==
    [i \in DOMAIN recs \cup {id} |-> IF i = id THEN string ELSE recs[i]]

Remove(recs, id) == [i \in DOMAIN recs \ {id} |-> recs[i]]

_add_keys(tgs, rtags, id, ord) ==
    LET ks == KeysInOrder(rtags, ord)
    IN tgs \o [i \in 1..Len(ks) |-> <<ks[i], <<rtags[ks[i]], id>>>>]

_remove_keys_inverted(tgs, id) == SelectSeq(tgs, LAMBDA t : t[2][2] = id)

_remove_keys(tgs, id) == SelectSeq(tgs, LAMBDA t : t[2][2] # id)

Outcome(recs, tgs, result) == [records |-> recs, tags |-> tgs, result |-> result]

add_record_no_check(recs, tgs, record, ord) ==
    LET string == to_string(record, ord)
    IN IF string = None
       THEN Outcome(recs, tgs, Err("Serialization"))
       ELSE Outcome(Insert(recs, record.id, string[1]),
                    _add_keys(tgs, record.tags, record.id, ord), Ok)

add_record(recs, tgs, record, ord) ==
    IF record.id \in DOMAIN recs
    THEN Outcome(recs, tgs, Err("DuplicateRecord"))
    ELSE LET string == to_string(record, ord)
         IN IF string = None
            THEN Outcome(recs, tgs, Err("Serialization"))
            ELSE Outcome(Insert(recs, record.id, string[1]),
                         _add_keys(tgs, record.tags, record.id, ord), Ok)

add_or_update_record_keeps_keys(recs, tgs, record, ord) ==
    LET string == to_string(record, ord)
    IN IF string = None
       THEN Outcome(recs, tgs, Err("Serialization"))
       ELSE Outcome(Insert(recs, record.id, string[1]),
                    _add_keys(tgs, record.tags, record.id, ord), Ok)

add_or_update_record(recs, tgs, record, ord) ==
    LET string == to_string(record, ord)
    IN IF string = None
       THEN Outcome(recs, tgs, Err("Serialization"))
       ELSE Outcome(Insert(recs, record.id, string[1]),
                    _add_keys(_remove_keys(tgs, record.id), record.tags, record.id, ord), Ok)

update_record_removes_keys_first(recs, tgs, record, ord) ==
    IF record.id \in DOMAIN recs
    THEN LET string == to_string(record, ord)
         IN IF string = None
            THEN Outcome(recs, _remove_keys(tgs, record.id), Err("Serialization"))
            ELSE Outcome(Insert(recs, record.id, string[1]),
                         _add_keys(_remove_keys(tgs, record.id), record.tags, record.id, ord), Ok)
    ELSE Outcome(recs, tgs, Err("RecordDoesNotExist"))

update_record_keeps_keys(recs, tgs, record, ord) ==
    IF record.id \in DOMAIN recs
    THEN LET string == to_string(record, ord)
         IN IF string = None
            THEN Outcome(recs, tgs, Err("Serialization"))
            ELSE Outcome(Insert(recs, record.id, string[1]),
                         _add_keys(tgs, record.tags, record.id, ord), Ok)
    ELSE Outcome(recs, tgs, Err("RecordDoesNotExist"))

update_record_upserts(recs, tgs, record, ord) ==
    add_or_update_record(recs, tgs, record, ord)

update_record(recs, tgs, record, ord) ==
    IF record.id \in DOMAIN recs
    THEN LET string == to_string(record, ord)
         IN IF string = None
            THEN Outcome(recs, tgs, Err("Serialization"))
            ELSE Outcome(Insert(recs, record.id, string[1]),
                         _add_keys(_remove_keys(tgs, record.id), record.tags, record.id, ord),
                         Ok)
    ELSE Outcome(recs, tgs, Err("RecordDoesNotExist"))

get_record(recs, id) ==
    IF id \in DOMAIN recs THEN Some(from_string(recs[id])) ELSE None

(* `io` is the iteration order of the `records` HashMap. *)
get_all_records(recs, io) ==
    LET ids == SelectSeq(io, LAMBDA i : i \in DOMAIN recs)
    IN [n \in 1..Len(ids) |-> from_string(recs[ids[n]])]

search_records_ignores_value(recs, tgs, tag_key, tag_value) ==
    LET matching == SelectSeq(tgs, LAMBDA t : tag_key = t[1])
        found == SelectSeq(matching, LAMBDA t : get_record(recs, t[2][2]) # None)
    IN [n \in 1..Len(found) |-> get_record(recs, found[n][2][2])[1]]

search_records(recs, tgs, tag_key, tag_value) ==
    LET matching == SelectSeq(tgs, LAMBDA t : tag_key = t[1] /\ tag_value = t[2][1])
        found == SelectSeq(matching, LAMBDA t : get_record(recs, t[2][2]) # None)
    IN [n \in 1..Len(found) |-> get_record(recs, found[n][2][2])[1]]

delete_record_keeps_keys(recs, tgs, id) ==
    Outcome(Remove(recs, id), tgs, Ok)

delete_record_strict(recs, tgs, id) ==
    IF id \in DOMAIN recs
    THEN Outcome(Remove(recs, id), _remove_keys(tgs, id), Ok)
    ELSE Outcome(recs, tgs, Err("RecordDoesNotExist"))

delete_record_keeps_record(recs, tgs, id) ==
    Outcome(recs, _remove_keys(tgs, id), Ok)

delete_record(recs, tgs, id) ==
    Outcome(Remove(recs, id), _remove_keys(tgs, id), Ok)

(***************************************************************************)
(* ConnectionRepository and DidRepository                                  *)
(***************************************************************************)
(* Uuid::to_string: the record id a connection id denotes. *)
Uuid_to_string(uuid) == uuid

ConnectionRepository_add_or_update_record(recs, tgs, record, ord) ==
    LET out == add_record(recs, tgs, record, ord)
    IN Outcome(out.records, out.tags, Wrap("AddOrUpdateRecordFailed", out.result))

ConnectionRepository_get_record(recs, id) == get_record(recs, Uuid_to_string(id))

ConnectionRepository_delete_record(recs, tgs, did) ==
    LET out == delete_record(recs, tgs, did)
    IN Outcome(out.records, out.tags, Wrap("DeleteRecordFailed", out.result))

DidRepository_add_or_update_record_drops(recs, tgs, record, ord) ==
    Outcome(recs, tgs, Ok)

DidRepository_add_or_update_record(recs, tgs, record, ord) ==
    LET out == add_record(recs, tgs, record, ord)
    IN Outcome(out.records, out.tags, Wrap("AddOrUpdateRecordFailed", out.result))

DidRepository_get_record(recs, did) == get_record(recs, did)

DidRepository_delete_record(recs, tgs, did) ==
    LET out == delete_record(recs, tgs, did)
    IN Outcome(out.records, out.tags, Wrap("DeleteRecordFailed", out.result))

(***************************************************************************)
(* The state machine                                                       *)
(***************************************************************************)
NoId == 0

(* `last` records the latest call: the method, the id it was about (NoId when  *)
(* it takes none), whether a record was stored under that id when it was      *)
(* made, the result it returned and, for a read, the records it returned.     *)
Call(op, id, existed, result, value) ==
    [op |-> op, id |-> id, existed |-> existed, result |-> result, value |-> value]

(* No task calls the connection service and no inviter state machine runs. *)
NoTurns ==
    /\ tasks = <<>>
    /\ inviter = <<>>

(* No messaging service is running. *)
NoMessaging ==
    /\ transports = {}
    /\ calls = <<>>
    /\ event_senders = <<>>
    /\ received = <<>>

(* InMemoryStorage::new(): the storage used directly through its trait *)
Init ==
    /\ owner = "InMemoryStorage"
    /\ records = [i \in {} |-> <<>>]
    /\ tags = <<>>
    /\ last = Call("new", NoId, FALSE, Ok, <<>>)
    /\ written = [i \in Ids |-> None]
    /\ NoMessaging
    /\ NoTurns

(* ConnectionRepository::new(store) or DidRepository::new(store) on a new storage *)
InitRepo ==
    /\ owner \in {"ConnectionRepository", "DidRepository"}
    /\ records = [i \in {} |-> <<>>]
    /\ tags = <<>>
    /\ last = Call("new", NoId, FALSE, Ok, <<>>)
    /\ written = [i \in Ids |-> None]
    /\ NoMessaging
    /\ NoTurns

(* A call that may change the storage: `out` is what the method computes, and *)
(* `arg` what a successful call leaves stored under `id` (None for a delete). *)
Write(op, out, id, arg) ==
    /\ records' = out.records
    /\ tags' = out.tags
    /\ last' = Call(op, id, id \in DOMAIN records, out.result, <<>>)
    /\ written' = IF out.result = Ok THEN [written EXCEPT ![id] = arg] ELSE written
    /\ UNCHANGED <<owner, msgvars, turnvars>>

(* A call that only reads. *)
Read(op, id, value) ==
    /\ last' = Call(op, id, id \in DOMAIN records, Ok, value)
    /\ UNCHANGED <<turnvars, storagevars, msgvars>>

AddRecord ==
    /\ owner = "InMemoryStorage"
    /\ \E record \in StorageInputs, ord \in StorageOrders :
          Write("add_record", add_record(records, tags, record, ord), record.id, Some(record))

AddOrUpdateRecord ==
    /\ owner = "InMemoryStorage"
    /\ \E record \in StorageInputs, ord \in StorageOrders :
          Write("add_or_update_record",
                add_or_update_record(records, tags, record, ord), record.id, Some(record))

UpdateRecord ==
    /\ owner = "InMemoryStorage"
    /\ \E record \in StorageInputs, ord \in StorageOrders :
          Write("update_record", update_record(records, tags, record, ord), record.id, Some(record))

GetRecord ==
    /\ owner = "InMemoryStorage"
    /\ \E id \in Ids : Read("get_record", id, get_record(records, id))

GetAllRecords ==
    /\ owner = "InMemoryStorage"
    /\ \E io \in IdOrders : Read("get_all_records", NoId, get_all_records(records, io))

SearchRecords ==
    /\ owner = "InMemoryStorage"
    /\ \E tag_key \in StorageTagKeys, tag_value \in TagValues :
          Read("search_records", NoId, search_records(records, tags, tag_key, tag_value))

DeleteRecord ==
    /\ owner = "InMemoryStorage"
    /\ \E id \in Ids : Write("delete_record", delete_record(records, tags, id), id, None)

ConnectionRepositoryAddOrUpdateRecord ==
    /\ owner = "ConnectionRepository"
    /\ \E record \in ConnectionRecords, ord \in ConnectionOrders :
          Write("add_or_update_record",
                ConnectionRepository_add_or_update_record(records, tags, record, ord),
                record.id, Some(record))

ConnectionRepositoryGetRecord ==
    /\ owner = "ConnectionRepository"
    /\ \E id \in Ids : Read("get_record", id, ConnectionRepository_get_record(records, id))

ConnectionRepositoryGetAllRecords ==
    /\ owner = "ConnectionRepository"
    /\ \E io \in IdOrders : Read("get_all_records", NoId, get_all_records(records, io))

ConnectionRepositorySearchRecords ==
    /\ owner = "ConnectionRepository"
    /\ \E tag_key \in ConnectionTagKeys, tag_value \in TagValues :
          Read("search_records", NoId, search_records(records, tags, tag_key, tag_value))

ConnectionRepositoryDeleteRecord ==
    /\ owner = "ConnectionRepository"
    /\ \E did \in Ids :
          Write("delete_record", ConnectionRepository_delete_record(records, tags, did), did, None)

DidRepositoryAddOrUpdateRecord ==
    /\ owner = "DidRepository"
    /\ \E record \in DidRecords, ord \in DidOrders :
          Write("add_or_update_record",
                DidRepository_add_or_update_record(records, tags, record, ord),
                record.id, Some(record))

DidRepositoryGetRecord ==
    /\ owner = "DidRepository"
    /\ \E did \in Ids : Read("get_record", did, DidRepository_get_record(records, did))

DidRepositoryGetAllRecords ==
    /\ owner = "DidRepository"
    /\ \E io \in IdOrders : Read("get_all_records", NoId, get_all_records(records, io))

DidRepositorySearchRecords ==
    /\ owner = "DidRepository"
    /\ \E tag_key \in DidTagKeys, tag_value \in TagValues :
          Read("search_records", NoId, search_records(records, tags, tag_key, tag_value))

DidRepositoryDeleteRecord ==
    /\ owner = "DidRepository"
    /\ \E did \in Ids :
          Write("delete_record", DidRepository_delete_record(records, tags, did), did, None)

Next ==
    \/ AddRecord
    \/ AddOrUpdateRecord
    \/ UpdateRecord
    \/ GetRecord
    \/ GetAllRecords
    \/ SearchRecords
    \/ DeleteRecord

NextRepo ==
    \/ ConnectionRepositoryAddOrUpdateRecord
    \/ ConnectionRepositoryGetRecord
    \/ ConnectionRepositoryGetAllRecords
    \/ ConnectionRepositorySearchRecords
    \/ ConnectionRepositoryDeleteRecord
    \/ DidRepositoryAddOrUpdateRecord
    \/ DidRepositoryGetRecord
    \/ DidRepositoryGetAllRecords
    \/ DidRepositorySearchRecords
    \/ DidRepositoryDeleteRecord

(* The in-memory storage used directly. *)
Spec == Init /\ [][Next]_vars

(* A repository over an in-memory storage. *)
SpecRepo == InitRepo /\ [][NextRepo]_vars

(***************************************************************************)
(* A repository over any VCXFrameworkStorage: the backend's calls may fail *)
(***************************************************************************)
StorageErrors == {"DuplicateRecord", "RecordDoesNotExist", "Serialization", "Deserialization"}

(* What a call of the backend does: it goes through (None) or fails with a *)
(* StorageError.                                                           *)
Faults == {None} \cup {Err(e) : e \in StorageErrors}

(* The variant each repository method hands to map_err. *)
RepositoryError(op) ==
    CASE op = "add_or_update_record" -> "AddOrUpdateRecordFailed"
      [] op = "get_record" -> "AddOrUpdateRecordFailed"
      [] op = "get_all_records" -> "GetAllRecordsFailed"
      [] op = "search_records" -> "SearchRecordsFailed"
      [] op = "delete_record" -> "DeleteRecordFailed"

(* The storage's answer to a call that computes `out` when it goes through. *)
Backend(fault, out) == IF fault = None THEN out ELSE Outcome(records, tags, fault)

(* A repository method that writes through the backend. *)
BackendWrite(op, fault, out, id, arg) ==
    LET answer == Backend(fault, out)
    IN Write(op, Outcome(answer.records, answer.tags, Wrap(RepositoryError(op), answer.result)),
             id, arg)

(* A repository method that reads through the backend. *)
BackendRead(op, fault, id, value) ==
    /\ last' = IF fault = None
               THEN Call(op, id, id \in DOMAIN records, Ok, value)
               ELSE Call(op, id, id \in DOMAIN records, Wrap(RepositoryError(op), fault), <<>>)
    /\ UNCHANGED <<turnvars, storagevars, msgvars>>

BackendRecords == IF owner = "ConnectionRepository" THEN ConnectionRecords ELSE DidRecords

BackendOrders == IF owner = "ConnectionRepository" THEN ConnectionOrders ELSE DidOrders

BackendTagKeys == IF owner = "ConnectionRepository" THEN ConnectionTagKeys ELSE DidTagKeys

(* A backend call that fails answers the same for every record of an id. *)
BackendAddOrUpdateRecord ==
    \/ \E record \in BackendRecords, ord \in BackendOrders :
          BackendWrite("add_or_update_record", None,
                       add_record(records, tags, record, ord), record.id, Some(record))
    \/ \E id \in Ids, fault \in Faults \ {None} :
          BackendWrite("add_or_update_record", fault, Outcome(records, tags, fault), id, None)

BackendGetRecord ==
    \E id \in Ids, fault \in Faults :
       BackendRead("get_record", fault, id, get_record(records, Uuid_to_string(id)))

BackendGetAllRecords ==
    \E io \in IdOrders, fault \in Faults :
       BackendRead("get_all_records", fault, NoId, get_all_records(records, io))

BackendSearchRecords ==
    \E tag_key \in BackendTagKeys, tag_value \in TagValues, fault \in Faults :
       BackendRead("search_records", fault, NoId,
                   search_records(records, tags, tag_key, tag_value))

BackendDeleteRecord ==
    \E did \in Ids, fault \in Faults :
       BackendWrite("delete_record", fault, delete_record(records, tags, did), did, None)

NextBackend ==
    \/ BackendAddOrUpdateRecord
    \/ BackendGetRecord
    \/ BackendGetAllRecords
    \/ BackendSearchRecords
    \/ BackendDeleteRecord

(* A repository over a storage backend whose calls may fail. *)
SpecBackend == InitRepo /\ [][NextBackend]_vars

(* DidRepository::new(store) on a new in-memory storage *)
InitDid ==
    /\ owner = "DidRepository"
    /\ records = [i \in {} |-> <<>>]
    /\ tags = <<>>
    /\ last = Call("new", NoId, FALSE, Ok, <<>>)
    /\ written = [i \in Ids |-> None]
    /\ NoMessaging
    /\ NoTurns

NextDid ==
    \/ DidRepositoryAddOrUpdateRecord
    \/ DidRepositoryGetRecord
    \/ DidRepositoryGetAllRecords
    \/ DidRepositorySearchRecords
    \/ DidRepositoryDeleteRecord

(* The DID repository over an in-memory storage. *)
SpecDid == InitDid /\ [][NextDid]_vars

(***************************************************************************)
(* Transports (vcx_framework::transport)                                   *)
(***************************************************************************)
(* A result that carries a value. *)
OkOf(x) == <<"Ok", x>>

(* Strings are sequences of characters; these are the letters the schemes  *)
(* are written with, and a digit.                                          *)
Upper(c) ==
    CASE c = "f" -> "F" [] c = "h" -> "H" [] c = "p" -> "P" [] c = "s" -> "S"
      [] c = "t" -> "T" [] c = "w" -> "W" [] OTHER -> c

(* char::to_lowercase *)
Lower(c) ==
    CASE c = "F" -> "f" [] c = "H" -> "h" [] c = "P" -> "p" [] c = "S" -> "s"
      [] c = "T" -> "t" [] c = "W" -> "w" [] OTHER -> c

to_lowercase_identity(s) == s

(* str::to_lowercase *)
to_lowercase(s) == [i \in 1..Len(s) |-> Lower(s[i])]

http == <<"h", "t", "t", "p">>

https == <<"h", "t", "t", "p", "s">>

ws == <<"w", "s">>

wss == <<"w", "s", "s">>

(* The words scheme strings are drawn from: the four schemes and strings   *)
(* next to them.                                                           *)
Words ==
    {http, https, ws, wss, <<>>, <<"f", "t", "p">>, <<"h", "t", "t">>, <<"w">>,
     <<"w", "s", "2">>, <<"h", "t", "t", "p", "2">>, <<"s", "w">>}

(* Every way of writing `w` in upper and lower case. *)
CaseVariants(w) ==
    {[i \in 1..Len(w) |-> IF i \in U THEN Upper(w[i]) ELSE w[i]] : U \in SUBSET (1..Len(w))}

SchemeStrings == UNION {CaseVariants(w) : w \in Words}

(* enum TransportScheme *)
TransportSchemes == {"HTTP", "WS"}

from_str_any_prefix(s) ==
    LET l == to_lowercase(s)
    IN IF Len(l) >= 4 /\ SubSeq(l, 1, 4) = http THEN OkOf("HTTP")
       ELSE IF Len(l) >= 2 /\ SubSeq(l, 1, 2) = ws THEN OkOf("WS")
       ELSE <<"InvalidTransportScheme", s>>

(* TransportScheme::from_str *)
from_str(s) ==
    LET l == to_lowercase(s)
    IN IF l = http \/ l = https THEN OkOf("HTTP")
       ELSE IF l = ws \/ l = wss THEN OkOf("WS")
       ELSE <<"InvalidTransportScheme", s>>

PREFERRED_TRANSPORT_SCHEME_ORDER == <<"WS", "HTTP">>

(* Url: a parsed URL keeps its scheme in lower case. *)
Endpoints == {[scheme |-> to_lowercase(w), address |-> "host/in"] : w \in Words \ {<<>>}}

(* EncryptionEnvelope and Jwe: a packed message. *)
Envelope(message, sender, receiver) == <<"jwe", message, sender, receiver>>

(* What the network gives the HTTP transport for a POST: no response       *)
(* (`sent` is false, the status and body then mean nothing), or a response *)
(* with a status and a body.                                               *)
Statuses == {200, 202, 404, 500}

Bodies == {Envelope("response", "their_did", "our_did"), <<"html">>, <<>>}

Responses ==
    {r \in [sent : BOOLEAN, status : Statuses, body : Bodies] :
        r.sent \/ (r.status = 200 /\ r.body = <<>>)}

(* Response::json::<Jwe>().await.ok() *)
json_ok(body) == IF Len(body) > 0 /\ body[1] = "jwe" THEN Some(body) ELSE None

(* HttpTransport::send_message, after the POST was answered by `response` *)
HttpTransport_send_message(response) ==
    IF ~response.sent
    THEN <<"ErrorSendingMessage">>
    ELSE OkOf(json_ok(response.body))

(* What a Transport's send_message may return. *)
TransportResults == {HttpTransport_send_message(response) : response \in Responses}

(* TransportRegistry::register_transport: the transport is stored under    *)
(* the scheme its get_scheme() gives.                                      *)
register_transport(trs, scheme) == trs \cup {scheme}

(* A call made on a collaborator. *)
CallOf(name, args) == [call |-> name, args |-> args]

TransportRegistry_send_message_any_transport(trs, message, endpoint, reply) ==
    LET scheme == from_str(endpoint.scheme)
    IN IF scheme[1] # "Ok"
       THEN [result |-> scheme, calls |-> <<>>]
       ELSE [result |-> reply,
             calls |-> <<CallOf("Transport::send_message", <<scheme[2], message, endpoint>>)>>]

(* TransportRegistry::send_message; `reply` is what the transport the      *)
(* message is handed to returns.                                           *)
TransportRegistry_send_message(trs, message, endpoint, reply) ==
    LET scheme == from_str(endpoint.scheme)
    IN IF scheme[1] # "Ok"
       THEN [result |-> scheme, calls |-> <<>>]
       ELSE IF scheme[2] \in trs
            THEN [result |-> reply,
                  calls |-> <<CallOf("Transport::send_message",
                                     <<scheme[2], message, endpoint>>)>>]
            ELSE [result |-> <<"NoRegisteredTransportForScheme", scheme[2]>>,
                  calls |-> <<>>]

(* AriesMessage *)
Messages == {"ping"}

(* TransportRegistry::new() *)
InitTransport ==
    /\ owner = "TransportRegistry"
    /\ records = [i \in {} |-> <<>>]
    /\ tags = <<>>
    /\ written = [i \in Ids |-> None]
    /\ last = Call("new", NoId, FALSE, Ok, <<>>)
    /\ transports = {}
    /\ calls = <<>>
    /\ event_senders = <<>>
    /\ received = <<>>
    /\ NoTurns

RegisterTransport ==
    \E scheme \in TransportSchemes :
       /\ transports' = register_transport(transports, scheme)
       /\ last' = Call("register_transport", NoId, FALSE, Ok, scheme)
       /\ calls' = <<>>
       /\ UNCHANGED <<turnvars, storagevars, event_senders, received>>

FromStr ==
    \E s \in SchemeStrings :
       /\ last' = Call("from_str", NoId, FALSE, from_str(s), s)
       /\ calls' = <<>>
       /\ UNCHANGED <<turnvars, storagevars, transports, event_senders, received>>

TransportRegistrySendMessage ==
    \E message \in Messages, endpoint \in Endpoints, reply \in TransportResults :
       LET out == TransportRegistry_send_message(
                     transports, Envelope(message, "our_did", "their_did"), endpoint, reply)
       IN /\ last' = Call("send_message", NoId, FALSE, out.result,
                          [endpoint |-> endpoint, reply |-> reply])
          /\ calls' = out.calls
          /\ UNCHANGED <<turnvars, storagevars, transports, event_senders, received>>

HttpTransportSendMessage ==
    \E response \in Responses :
       /\ last' = Call("HttpTransport::send_message", NoId, FALSE,
                       HttpTransport_send_message(response), response)
       /\ calls' = <<>>
       /\ UNCHANGED <<turnvars, storagevars, transports, event_senders, received>>

NextTransport ==
    \/ RegisterTransport
    \/ FromStr
    \/ TransportRegistrySendMessage
    \/ HttpTransportSendMessage

(* The transport registry and the HTTP transport. *)
SpecTransport == InitTransport /\ [][NextTransport]_vars

(***************************************************************************)
(* MessagingService of vcx_framework (lib.rs)                              *)
(***************************************************************************)
(* ConnectionRecordData: the two DIDs of a connection. *)
our_did(data) == <<"our_did", data>>

their_did(data) == <<"their_did", data>>

(* A DID document is the sequence of its services; a service has a type and *)
(* an endpoint.                                                             *)
ServiceTypes == {"DIDCommV1", "DIDCommV2"}

ServiceEndpoints == {e \in Endpoints : e.scheme \in {http, wss, <<"f", "t", "p">>}}

(* The services of the documents: a DIDCommV1 service at each endpoint and *)
(* a service of another type.                                              *)
Services ==
    {s \in [type : ServiceTypes, endpoint : ServiceEndpoints] :
        s.type = "DIDCommV1" \/ s.endpoint.scheme = http}

(* The documents the resolver gives: no service, one service, or a         *)
(* DIDCommV1 service after another service.                                *)
DidDocuments ==
    {<<>>} \cup {<<s>> : s \in Services}
           \cup {d \in {<<s, t>> : s, t \in Services} :
                    d[2].type = "DIDCommV1" /\ d[1] # d[2]}

get_service_of_type_last(doc, type) ==
    LET found == SelectSeq(doc, LAMBDA s : s.type = type)
    IN IF found = <<>> THEN None ELSE Some(found[Len(found)])

(* DidDocument::get_service_of_type: the first service of the type, if any *)
get_service_of_type(doc, type) ==
    LET found == SelectSeq(doc, LAMBDA s : s.type = type)
    IN IF found = <<>> THEN None ELSE Some(found[1])

(* Option<&[TransportScheme]>: the orders a caller may prefer. *)
PreferredTransports ==
    {None} \cup {Some(order) : order \in {<<"WS">>, <<"HTTP", "WS">>}}

(* InMemoryStorage::get_record fails only when a stored string does not    *)
(* deserialise.                                                            *)
GetRecordFaults == {None, Err("Deserialization")}

(* What the collaborators of one send_message answer: the backend's        *)
(* get_record (fault), the resolver registry (resolved: the recipient's    *)
(* DID document, or None when resolution fails), the peer DID's own        *)
(* resolution (peer), the wallet's packing (packs) and the transport that  *)
(* is handed the message (reply).                                          *)
Environments ==
    [fault : GetRecordFaults, resolved : {None} \cup {Some(doc) : doc \in DidDocuments},
     peer : BOOLEAN, packs : BOOLEAN, reply : TransportResults]

(* What an operation of the service did: its result, the calls it made on  *)
(* its collaborators and the events it emitted, in order.                  *)
Done(result, made, emitted) == [result |-> result, calls |-> made, events |-> emitted]

send_message_by_did_skips_service(message, sender_did, receiver_did, preferred, trs, env) ==
    LET resolve == <<CallOf("ResolverRegistry::resolve", <<receiver_did>>)>>
        peer == resolve \o <<CallOf("PeerDid::resolve_did_doc", <<sender_did>>)>>
        pack == peer \o <<CallOf("EncryptionEnvelope::create",
                                 <<message, sender_did, receiver_did>>)>>
    IN IF env.resolved = None
       THEN Done(<<"DidResolution", receiver_did>>, resolve, <<>>)
       ELSE IF ~env.peer
       THEN Done(<<"DidResolutionPeerDid", sender_did>>, peer, <<>>)
       ELSE IF ~env.packs
       THEN Done(<<"EncryptMessage">>, pack, <<>>)
       ELSE IF get_service_of_type(env.resolved[1], "DIDCommV1") = None
       THEN Done(<<"InvalidDidDocService", receiver_did>>, pack, <<>>)
       ELSE LET service == get_service_of_type(env.resolved[1], "DIDCommV1")[1]
                encrypted_message == Envelope(message, sender_did, receiver_did)
                send == pack \o <<CallOf("TransportRegistry::send_message",
                                         <<encrypted_message, service.endpoint>>)>>
                sent == TransportRegistry_send_message(
                           trs, encrypted_message, service.endpoint, env.reply)
            IN IF sent.result[1] # "Ok"
               THEN Done(<<"OutboundTransportError">> \o sent.result,
                         send \o sent.calls, <<>>)
               ELSE Done(Ok, send \o sent.calls, <<>>)

(* MessagingService::send_message_by_did.  The preferred transports are    *)
(* not used, a returned message is not handled and no event is emitted     *)
(* (all three are left as TODO).                                           *)
send_message_by_did(message, sender_did, receiver_did, preferred, trs, env) ==
    LET resolve == <<CallOf("ResolverRegistry::resolve", <<receiver_did>>)>>
        peer == resolve \o <<CallOf("PeerDid::resolve_did_doc", <<sender_did>>)>>
        pack == peer \o <<CallOf("EncryptionEnvelope::create",
                                 <<message, sender_did, receiver_did>>)>>
    IN IF env.resolved = None
       THEN Done(<<"DidResolution", receiver_did>>, resolve, <<>>)
       ELSE IF ~env.peer
       THEN Done(<<"DidResolutionPeerDid", sender_did>>, peer, <<>>)
       ELSE IF get_service_of_type(env.resolved[1], "DIDCommV1") = None
       THEN Done(<<"InvalidDidDocService", receiver_did>>, peer, <<>>)
       ELSE IF ~env.packs
       THEN Done(<<"EncryptMessage">>, pack, <<>>)
       ELSE LET service == get_service_of_type(env.resolved[1], "DIDCommV1")[1]
                encrypted_message == Envelope(message, sender_did, receiver_did)
                send == pack \o <<CallOf("TransportRegistry::send_message",
                                         <<encrypted_message, service.endpoint>>)>>
                sent == TransportRegistry_send_message(
                           trs, encrypted_message, service.endpoint, env.reply)
            IN IF sent.result[1] # "Ok"
               THEN Done(<<"OutboundTransportError">> \o sent.result,
                         send \o sent.calls, <<>>)
               ELSE Done(Ok, send \o sent.calls, <<>>)

send_message_default_record(recs, message, connection_id, preferred, trs, env) ==
    LET get == <<CallOf("ConnectionRepository::get_record", <<connection_id>>)>>
        found == IF env.fault = None
                 THEN ConnectionRepository_get_record(recs, connection_id)
                 ELSE None
        data == IF found = None THEN "foo" ELSE found[1].data
        sent == send_message_by_did(message, our_did(data), their_did(data),
                                    preferred, trs, env)
    IN Done(sent.result, get \o sent.calls, sent.events)

(* MessagingService::send_message: a get_record that fails and a record    *)
(* that is not stored both give ConnectionRecordNotFound.                  *)
send_message(recs, message, connection_id, preferred, trs, env) ==
    LET get == <<CallOf("ConnectionRepository::get_record", <<connection_id>>)>>
        found == IF env.fault = None
                 THEN ConnectionRepository_get_record(recs, connection_id)
                 ELSE None
    IN IF found = None
       THEN Done(<<"ConnectionRecordNotFound", connection_id>>, get, <<>>)
       ELSE LET data == found[1].data
                sent == send_message_by_did(message, our_did(data), their_did(data),
                                            preferred, trs, env)
            IN Done(sent.result, get \o sent.calls, sent.events)

(* The connection records a repository holds before the service is used:   *)
(* records without tags, as test_send_message stores them.                 *)
ConnectionStores ==
    {[id \in S |-> IF id = 1 THEN "foo" ELSE "foo2"] : S \in SUBSET Ids}

(* MessagingService::new(resolvers, transport_registry, wallet), with a    *)
(* connection repository that holds some records.                          *)
InitMessaging ==
    /\ owner = "ConnectionRepository"
    /\ \E store \in ConnectionStores :
          /\ records = [id \in DOMAIN store |->
                           to_string([id |-> id, data |-> store[id], tags |-> <<>>],
                                     ConnectionRecordTagKeys)[1]]
          /\ written = [id \in Ids |->
                           IF id \in DOMAIN store
                           THEN Some([id |-> id, data |-> store[id], tags |-> <<>>])
                           ELSE None]
    /\ tags = <<>>
    /\ last = Call("new", NoId, FALSE, Ok, <<>>)
    /\ transports \in SUBSET TransportSchemes
    /\ calls = <<>>
    /\ event_senders = <<>>
    /\ received = <<>>
    /\ NoTurns

SendMessage ==
    \E message \in Messages, connection_id \in Ids, preferred \in PreferredTransports,
       env \in Environments :
       LET out == send_message(records, message, connection_id, preferred, transports, env)
       IN /\ last' = Call("send_message", connection_id, connection_id \in DOMAIN records,
                          out.result, <<>>)
          /\ calls' = out.calls
          /\ UNCHANGED <<turnvars, storagevars, transports, event_senders, received>>

NextMessaging == SendMessage

(* The messaging service of vcx_framework over a connection repository. *)
SpecMessaging == InitMessaging /\ [][NextMessaging]_vars

(***************************************************************************)
(* MessagingService of aries_framework_vcx (messaging_service.rs)          *)
(***************************************************************************)
(* Bounds: the receivers that are registered and not dropped, and the      *)
(* events a receiver holds.                                                *)
MaxSubscribers == 2
MaxEvents == 2

Subscribers == 1..MaxSubscribers

(* transports.rs: PREFERRED_PROTOCOL_ORDER *)
PREFERRED_PROTOCOL_ORDER == <<"WS", "HTTP">>

(* MessagingEvents *)
OutboundMessage(message, encrypted_message, sender_did, receiver_did) ==
    [type |-> "OutboundMessage", message |-> message,
     encrypted_message |-> encrypted_message,
     sender_did |-> sender_did, receiver_did |-> receiver_did]

(* An error that `?` converts into the framework's error type; `step` names *)
(* the call that failed.                                                    *)
VCXFrameworkError(step) == <<"VCXFrameworkError", step>>

(* What the collaborators of one send_message answer: as Environments,     *)
(* without the repository and with the wallet's unpacking of a returned    *)
(* message (unpacks).  This service picks the transport by protocol and    *)
(* never looks at the endpoint's scheme: the documents all have http       *)
(* endpoints.                                                              *)
FrameworkDocuments == {doc \in DidDocuments : \A i \in 1..Len(doc) : doc[i].endpoint.scheme = http}

(* An answer that send_message never asks for (the call before it failed)  *)
(* is left at its default, so that each run is drawn once.                 *)
AnswersAsked(env) ==
    LET asks_peer == env.resolved # None
        asks_pack == /\ asks_peer
                     /\ env.peer
                     /\ get_service_of_type(env.resolved[1], "DIDCommV1") # None
        asks_send == asks_pack /\ env.packs
        asks_unpack == asks_send /\ env.reply[1] = "Ok" /\ env.reply[2] # None
    IN /\ asks_peer \/ env.peer
       /\ asks_pack \/ env.packs
       /\ asks_send \/ env.reply = OkOf(None)
       /\ asks_unpack \/ env.unpacks

FrameworkEnvironments ==
    {env \in [resolved : {None} \cup {Some(doc) : doc \in FrameworkDocuments},
              peer : BOOLEAN, packs : BOOLEAN, reply : TransportResults,
              unpacks : BOOLEAN] : AnswersAsked(env)}

(* Sender::send to every sender, in order: the event is queued at the      *)
(* receivers that exist, and the senders whose receiver was dropped are    *)
(* removed.  `rcvd` maps the receivers that exist to what they hold.       *)
emit_event_drops_unread(senders, rcvd, event) ==
    LET free == SelectSeq(senders, LAMBDA tx : tx \in DOMAIN rcvd /\ rcvd[tx] = <<>>)
    IN [senders |-> free,
        received |-> [rx \in DOMAIN rcvd |->
                         IF rx \in Range(free) THEN Append(rcvd[rx], event) ELSE rcvd[rx]]]

emit_event_no_pruning(senders, rcvd, event) ==
    [senders |-> senders,
     received |-> [rx \in DOMAIN rcvd |->
                      IF rx \in Range(senders) THEN Append(rcvd[rx], event) ELSE rcvd[rx]]]

emit_event(senders, rcvd, event) ==
    [senders |-> SelectSeq(senders, LAMBDA tx : tx \in DOMAIN rcvd),
     received |-> [rx \in DOMAIN rcvd |->
                      IF rx \in Range(senders) THEN Append(rcvd[rx], event) ELSE rcvd[rx]]]

(* MessagingService::receive_message: unpack and log; no event *)
receive_message(encrypted_message, env) ==
    LET unpack == <<CallOf("EncryptionEnvelope::unpack", <<encrypted_message>>)>>
    IN IF ~env.unpacks
       THEN Done(VCXFrameworkError("EncryptionEnvelope::unpack"), unpack, <<>>)
       ELSE Done(Ok, unpack, <<>>)

(* The loop over protocols_to_try: protocols without a transport are       *)
(* skipped, the first protocol with a transport is handed the message and  *)
(* ends the loop; when no protocol has a transport the loop ends without a *)
(* dispatch.                                                               *)
dispatch(protocols_to_try, trs, endpoint, encrypted_message, env) ==
    LET registered == SelectSeq(protocols_to_try, LAMBDA protocol : protocol \in trs)
    IN IF registered = <<>>
       THEN Done(Ok, <<>>, <<>>)
       ELSE LET send == <<CallOf("Transport::send_message",
                                 <<registered[1], endpoint, encrypted_message>>)>>
            IN IF env.reply[1] # "Ok"
               THEN Done(VCXFrameworkError("Transport::send_message"), send, <<>>)
               ELSE IF env.reply[2] = None
               THEN Done(Ok, send, <<>>)
               ELSE LET inbound == receive_message(env.reply[2][1], env)
                    IN Done(inbound.result, send \o inbound.calls, inbound.events)

(* MessagingService::send_message of aries_framework_vcx *)
MessagingService_send_message(message, sender_did, receiver_did, preferred_transports, trs, env) ==
    LET resolve == <<CallOf("ResolverRegistry::resolve", <<receiver_did>>)>>
        peer == resolve \o <<CallOf("PeerDid::resolve_did_doc", <<sender_did>>)>>
        pack == peer \o <<CallOf("EncryptionEnvelope::create",
                                 <<message, sender_did, receiver_did>>)>>
    IN IF env.resolved = None
       THEN Done(VCXFrameworkError("ResolverRegistry::resolve"), resolve, <<>>)
       ELSE IF ~env.peer
       THEN Done(VCXFrameworkError("PeerDid::resolve_did_doc"), peer, <<>>)
       ELSE IF get_service_of_type(env.resolved[1], "DIDCommV1") = None
       THEN Done(VCXFrameworkError("DidDocument::get_service_of_type"), peer, <<>>)
       ELSE IF ~env.packs
       THEN Done(VCXFrameworkError("EncryptionEnvelope::create"), pack, <<>>)
       ELSE LET service == get_service_of_type(env.resolved[1], "DIDCommV1")[1]
                encrypted_message == Envelope(message, sender_did, receiver_did)
                event == OutboundMessage(message, encrypted_message,
                                         sender_did, receiver_did)
                emit == pack \o <<CallOf("emit_event", <<event.type>>)>>
                protocols_to_try == IF preferred_transports = None
                                    THEN PREFERRED_PROTOCOL_ORDER
                                    ELSE preferred_transports[1]
                sent == dispatch(protocols_to_try, trs, service.endpoint,
                                 encrypted_message, env)
            IN Done(sent.result, emit \o sent.calls, <<event>> \o sent.events)

(* Every event of `events` emitted in order. *)
RECURSIVE emit_events(_, _, _)
emit_events(senders, rcvd, events) ==
    IF events = <<>>
    THEN [senders |-> senders, received |-> rcvd]
    ELSE LET emitted == emit_event(senders, rcvd, Head(events))
         IN emit_events(emitted.senders, emitted.received, Tail(events))

(* MessagingService::new(config, wallet, resolvers, transport_registry) *)
InitFramework ==
    /\ owner = "MessagingService"
    /\ records = [i \in {} |-> <<>>]
    /\ tags = <<>>
    /\ written = [i \in Ids |-> None]
    /\ last = Call("new", NoId, FALSE, Ok, <<>>)
    /\ transports \in SUBSET TransportSchemes
    /\ calls = <<>>
    /\ event_senders = <<>>
    /\ received = <<>>
    /\ NoTurns

(* EventEmitter::register_event_receiver: a new channel, whose sender is   *)
(* pushed and whose receiver is returned to the subscriber.                *)
RegisterEventReceiver ==
    /\ Cardinality(DOMAIN received \cup Range(event_senders)) < MaxSubscribers
    /\ LET rx == CHOOSE s \in Subscribers : s \notin DOMAIN received \cup Range(event_senders)
       IN /\ event_senders' = Append(event_senders, rx)
          /\ received' = [s \in DOMAIN received \cup {rx} |->
                             IF s = rx THEN <<>> ELSE received[s]]
          /\ last' = Call("register_event_receiver", NoId, FALSE, Ok, rx)
    /\ calls' = <<>>
    /\ UNCHANGED <<turnvars, storagevars, transports>>

(* A subscriber drops its receiver. *)
DropReceiver ==
    \E rx \in DOMAIN received :
       /\ received' = [s \in DOMAIN received \ {rx} |-> received[s]]
       /\ last' = Call("drop", NoId, FALSE, Ok, rx)
       /\ calls' = <<>>
       /\ UNCHANGED <<turnvars, storagevars, transports, event_senders>>

(* A subscriber takes the oldest event from its receiver. *)
Recv ==
    \E rx \in DOMAIN received :
       /\ received[rx] # <<>>
       /\ received' = [received EXCEPT ![rx] = Tail(received[rx])]
       /\ last' = Call("recv", NoId, FALSE, Ok, rx)
       /\ calls' = <<>>
       /\ UNCHANGED <<turnvars, storagevars, transports, event_senders>>

FrameworkSendMessage ==
    /\ \A rx \in DOMAIN received : Len(received[rx]) < MaxEvents
    /\ \E message \in Messages, preferred \in PreferredTransports,
          env \in FrameworkEnvironments :
          LET out == MessagingService_send_message(
                        message, our_did("foo"), their_did("foo"), preferred,
                        transports, env)
              emitted == emit_events(event_senders, received, out.events)
          IN /\ last' = Call("send_message", NoId, FALSE, out.result, preferred)
             /\ calls' = out.calls
             /\ event_senders' = emitted.senders
             /\ received' = emitted.received
             /\ UNCHANGED <<turnvars, storagevars, transports>>

NextFramework ==
    \/ RegisterEventReceiver
    \/ DropReceiver
    \/ Recv
    \/ FrameworkSendMessage

(* The messaging service of aries_framework_vcx with its subscribers. *)
SpecFramework == InitFramework /\ [][NextFramework]_vars

(***************************************************************************)
(* InvitationService of aries_framework_vcx (invitation_service.rs)        *)
(***************************************************************************)
(* The peer DIDs create_peer_did_4 may mint and the ids OutOfBandSender    *)
(* may give an invitation.                                                 *)
PeerDids == {"did:peer:4zQmA", "did:peer:4zQmB"}

(* The hyphenated string a Uuid is written as, and Uuid::parse_str, which   *)
(* reads such a string and no other.                                       *)
UuidString(uuid) == <<"uuid", uuid>>

Uuid_parse_str(s) ==
    IF s[1] = "uuid" THEN OkOf(s[2]) ELSE VCXFrameworkError("Uuid::parse_str")

InvitationIds == {UuidString(i) : i \in Ids}

(* InvitationEvent { state } *)
InvitationEvent(state) == [type |-> "InvitationEvent", state |-> state]

(* OobService::Did(peer_did.to_string()) *)
OobService_Did(did) == [type |-> "Did", did |-> did]

(* Protocol::DidExchangeType(DidExchangeType::V1(DidExchangeTypeV1::new_v1_1())) *)
DidExchangeTypeV1_new_v1_1 == "https://didcomm.org/didexchange/1.1"

(* The invitation an OutOfBandSender holds after create(), append_service  *)
(* and append_handshake_protocol.                                          *)
OutOfBandSender(id, service, protocol) ==
    [id |-> id, services |-> <<service>>, handshake_protocols |-> <<protocol>>]

(* What the collaborators of one create_invitation answer: the peer DID    *)
(* minted in the wallet (None when that fails), the new invitation's id    *)
(* and whether the handshake protocol could be appended.  An answer that   *)
(* is never asked for is left at its default.                              *)
InvitationEnvironments ==
    {env \in [peer_did : {None} \cup {Some(did) : did \in PeerDids},
              id : InvitationIds, appends : BOOLEAN] :
        /\ env.peer_did = None => env.appends
        /\ (env.peer_did = None \/ ~env.appends) => env.id = UuidString(MaxId)}

(* EventEmitter for InvitationService: emit_event *)
InvitationService_emit_event_no_pruning(senders, rcvd, event) ==
    [senders |-> senders,
     received |-> [rx \in DOMAIN rcvd |->
                      IF rx \in Range(senders) THEN Append(rcvd[rx], event) ELSE rcvd[rx]]]

InvitationService_emit_event(senders, rcvd, event) ==
    [senders |-> SelectSeq(senders, LAMBDA tx : tx \in DOMAIN rcvd),
     received |-> [rx \in DOMAIN rcvd |->
                      IF rx \in Range(senders) THEN Append(rcvd[rx], event) ELSE rcvd[rx]]]

(* InvitationService::create_invitation: the invitation is built and the   *)
(* event emitted; nothing is stored (TODO - persist).                      *)
create_invitation(env) ==
    LET mint == <<CallOf("create_peer_did_4", <<"agent_endpoint">>)>>
    IN IF env.peer_did = None
       THEN Done(VCXFrameworkError("create_peer_did_4"), mint, <<>>)
       ELSE IF ~env.appends
       THEN Done(VCXFrameworkError("append_handshake_protocol"), mint, <<>>)
       ELSE LET service == OobService_Did(env.peer_did[1])
                oob_sender == OutOfBandSender(env.id, service, DidExchangeTypeV1_new_v1_1)
                event == InvitationEvent("created")
            IN Done(OkOf(oob_sender),
                    mint \o <<CallOf("emit_event", <<event.type>>)>>,
                    <<event>>)

(* InvitationService::new(framework_config, wallet) *)
InitInvitation ==
    /\ owner = "InvitationService"
    /\ records = [i \in {} |-> <<>>]
    /\ tags = <<>>
    /\ written = [i \in Ids |-> None]
    /\ last = Call("new", NoId, FALSE, Ok, <<>>)
    /\ transports = {}
    /\ calls = <<>>
    /\ event_senders = <<>>
    /\ received = <<>>
    /\ NoTurns

(* ConnectionService::new: registers an event receiver on the invitation   *)
(* service and lets the returned receiver go at once.                      *)
ConnectionService_new ==
    /\ Cardinality(DOMAIN received \cup Range(event_senders)) < MaxSubscribers
    /\ LET rx == CHOOSE s \in Subscribers : s \notin DOMAIN received \cup Range(event_senders)
       IN /\ event_senders' = Append(event_senders, rx)
          /\ last' = Call("ConnectionService::new", NoId, FALSE, Ok, rx)
    /\ calls' = <<>>
    /\ UNCHANGED <<turnvars, storagevars, transports, received>>

CreateInvitation ==
    /\ \A rx \in DOMAIN received : Len(received[rx]) < MaxEvents
    /\ \E env \in InvitationEnvironments :
          LET out == create_invitation(env)
              emitted == IF out.events = <<>>
                         THEN [senders |-> event_senders, received |-> received]
                         ELSE InvitationService_emit_event(event_senders, received,
                                                           out.events[1])
          IN /\ last' = Call("create_invitation", NoId, FALSE, out.result, <<>>)
             /\ calls' = out.calls
             /\ event_senders' = emitted.senders
             /\ received' = emitted.received
             /\ UNCHANGED <<turnvars, storagevars, transports>>

NextInvitation ==
    \/ RegisterEventReceiver
    \/ DropReceiver
    \/ Recv
    \/ ConnectionService_new
    \/ CreateInvitation

(* The invitation service with its subscribers. *)
SpecInvitation == InitInvitation /\ [][NextInvitation]_vars

(***************************************************************************)
(* ConnectionService of aries_framework_vcx (connection_service.rs)        *)
(***************************************************************************)
(* The connections requested while a subscriber holds their events. *)
MaxConnections == 1

ConnectionIds == 1..MaxConnections

(* ConnectionServiceConfig::default(): the three switches; no method of    *)
(* the service reads them.                                                 *)
ConnectionServiceConfig_default ==
    [auto_complete_requests |-> TRUE, auto_handle_requests |-> TRUE,
     auto_respond_to_requests |-> TRUE]

(* The states of a DID-Exchange connection (GenericDidExchange). *)
ConnectionStates == {"Invited", "Requested", "Responded", "Completed", "Abandoned"}

(* ConnectionRecord { id, invitation_id, state_machine } *)
ConnectionRecord(id, invitation_id, state_machine) ==
    [id |-> id, invitation_id |-> invitation_id, state_machine |-> state_machine]

(* ConnectionEvent { record } *)
ConnectionEvent(record) == [type |-> "ConnectionEvent", record |-> record]

(* The invitations an application may hand to request_connection: with an  *)
(* id that is a Uuid or is not, with or without a DID service, and with    *)
(* the handshake protocols they advertise.                                 *)
DidExchangeTypeV1_new_v1_0 == "https://didcomm.org/didexchange/1.0"

SupportedVersions == <<DidExchangeTypeV1_new_v1_1, DidExchangeTypeV1_new_v1_0>>

InvitationIdStrings == {UuidString(MaxId), <<"text", "inv-1">>}

ReceivedInvitations ==
    {invitation \in [id : InvitationIdStrings,
                     services : {<<>>, <<OobService_Did(their_did("foo"))>>},
                     handshake_protocols :
                        {<<>>, <<DidExchangeTypeV1_new_v1_0, DidExchangeTypeV1_new_v1_1>>}] :
        \/ invitation.services # <<>> /\ invitation.handshake_protocols # <<>>
        \/ invitation.id = UuidString(MaxId)}

(* invitation_get_first_did_service: the DID of the first service that is  *)
(* a DID reference.                                                        *)
invitation_get_first_did_service(oob) ==
    LET dids == SelectSeq(oob.services, LAMBDA service : service.type = "Did")
    IN IF dids = <<>>
       THEN VCXFrameworkError("invitation_get_first_did_service")
       ELSE OkOf(dids[1].did)

(* invitation_get_acceptable_did_exchange_version: the newest supported    *)
(* version the invitation advertises.                                      *)
invitation_get_acceptable_did_exchange_version(oob) ==
    LET acceptable == SelectSeq(SupportedVersions,
                                LAMBDA version : version \in Range(oob.handshake_protocols))
    IN IF acceptable = <<>>
       THEN VCXFrameworkError("invitation_get_acceptable_did_exchange_version")
       ELSE OkOf(acceptable[1])

(* GenericDidExchange::construct_request: the request, whose thread is the *)
(* invitation, and the requester's state machine after sending it.         *)
construct_request(id, invitation_id, inviter_did, our_peer_did, label, version, transport_decorator) ==
    [state_machine |-> "Requested",
     request |-> [type |-> "Request", id |-> id, pthid |-> invitation_id,
                  did |-> our_peer_did, label |-> label, version |-> version,
                  their_did |-> inviter_did, transport |-> transport_decorator]]

(* Transport::builder().return_route(ReturnRoute::All).build() *)
ReturnRouteAll == [return_route |-> "all"]

(* What the collaborators of one request_connection answer: the peer DID   *)
(* minted in the wallet (None when that fails) and whether the request     *)
(* could be constructed (the inviter's DID resolved).                      *)
ConnectionEnvironments ==
    {env \in [peer_did : {None, Some(our_did("foo"))}, constructs : BOOLEAN] :
        env.peer_did = None => env.constructs}

(* One call of request_connection with what its collaborators and those of *)
(* the messaging service answer; when the request is not sent, the         *)
(* messaging service is asked nothing and its answers are left at their    *)
(* default.                                                                *)
RequestRuns ==
    {run \in [invitation : ReceivedInvitations, mediated : BOOLEAN,
              env : ConnectionEnvironments,
              menv : {menv \in FrameworkEnvironments :
                         \/ menv.resolved = None
                         \/ /\ Len(menv.resolved[1]) = 1
                            /\ menv.resolved[1][1].type = "DIDCommV1"}] :
        \/ /\ run.env.peer_did # None
           /\ run.env.constructs
           /\ invitation_get_first_did_service(run.invitation)[1] = "Ok"
           /\ invitation_get_acceptable_did_exchange_version(run.invitation)[1] = "Ok"
        \/ run.menv.resolved = None}

(* EventEmitter for ConnectionService: emit_event *)
ConnectionService_emit_event(senders, rcvd, event) ==
    [senders |-> SelectSeq(senders, LAMBDA tx : tx \in DOMAIN rcvd),
     received |-> [rx \in DOMAIN rcvd |->
                      IF rx \in Range(senders) THEN Append(rcvd[rx], event) ELSE rcvd[rx]]]

(* ConnectionService::request_connection: the request is constructed and   *)
(* sent, then the record is built and carried by the event; the record is  *)
(* not stored (TODO - Store Record) and specific_mediator_id is not used.  *)
request_connection_emits_before_send(invitation, mediated, request_id, trs, env, menv) ==
    LET mint == <<CallOf("create_peer_did_4", <<"agent_endpoint">>)>>
        inviter_did == invitation_get_first_did_service(invitation)
        version == invitation_get_acceptable_did_exchange_version(invitation)
    IN IF env.peer_did = None
       THEN Done(VCXFrameworkError("create_peer_did_4"), mint, <<>>)
       ELSE IF inviter_did[1] # "Ok"
       THEN Done(inviter_did, mint, <<>>)
       ELSE IF version[1] # "Ok"
       THEN Done(version, mint, <<>>)
       ELSE LET transport_decorator == IF ~mediated THEN Some(ReturnRouteAll) ELSE None
                built == construct_request(request_id, Some(invitation.id),
                                           inviter_did[2], env.peer_did[1],
                                           "agent_label", version[2], transport_decorator)
                construct == mint \o <<CallOf("GenericDidExchange::construct_request",
                                              <<invitation.id>>)>>
                id == Uuid_parse_str(built.request.id)
                invitation_id == Uuid_parse_str(invitation.id)
            IN IF ~env.constructs
               THEN Done(VCXFrameworkError("GenericDidExchange::construct_request"),
                         construct, <<>>)
               ELSE IF id[1] # "Ok"
               THEN Done(id, construct, <<>>)
               ELSE IF invitation_id[1] # "Ok"
               THEN Done(invitation_id, construct, <<>>)
               ELSE LET record == ConnectionRecord(id[2], invitation_id[2],
                                                   built.state_machine)
                        event == ConnectionEvent(record)
                        sent == MessagingService_send_message(
                                   built.request, env.peer_did[1], inviter_did[2],
                                   Some(<<"HTTP", "WS">>), trs, menv)
                        made == construct
                                   \o <<CallOf("emit_event", <<event.type>>)>>
                                   \o <<CallOf("MessagingService::send_message",
                                               <<built.request>>)>>
                                   \o sent.calls
                    IN Done(sent.result, made, <<event>>)

request_connection_always_return_route(invitation, mediated, request_id, trs, env, menv) ==
    LET mint == <<CallOf("create_peer_did_4", <<"agent_endpoint">>)>>
        inviter_did == invitation_get_first_did_service(invitation)
        version == invitation_get_acceptable_did_exchange_version(invitation)
    IN IF env.peer_did = None
       THEN Done(VCXFrameworkError("create_peer_did_4"), mint, <<>>)
       ELSE IF inviter_did[1] # "Ok"
       THEN Done(inviter_did, mint, <<>>)
       ELSE IF version[1] # "Ok"
       THEN Done(version, mint, <<>>)
       ELSE LET transport_decorator == Some(ReturnRouteAll)
                built == construct_request(request_id, Some(invitation.id),
                                           inviter_did[2], env.peer_did[1],
                                           "agent_label", version[2], transport_decorator)
                construct == mint \o <<CallOf("GenericDidExchange::construct_request",
                                              <<invitation.id>>)>>
            IN IF ~env.constructs
               THEN Done(VCXFrameworkError("GenericDidExchange::construct_request"),
                         construct, <<>>)
               ELSE LET sent == MessagingService_send_message(
                                   built.request, env.peer_did[1], inviter_did[2],
                                   Some(<<"HTTP", "WS">>), trs, menv)
                        made == construct
                                   \o <<CallOf("MessagingService::send_message",
                                               <<built.request>>)>>
                                   \o sent.calls
                        id == Uuid_parse_str(built.request.id)
                        invitation_id == Uuid_parse_str(invitation.id)
                    IN IF sent.result # Ok
                       THEN Done(sent.result, made, <<>>)
                       ELSE IF id[1] # "Ok"
                       THEN Done(id, made, <<>>)
                       ELSE IF invitation_id[1] # "Ok"
                       THEN Done(invitation_id, made, <<>>)
                       ELSE LET record == ConnectionRecord(id[2], invitation_id[2],
                                                           built.state_machine)
                                event == ConnectionEvent(record)
                            IN Done(Ok, made \o <<CallOf("emit_event", <<event.type>>)>>,
                                    <<event>>)

request_connection(invitation, mediated, request_id, trs, env, menv) ==
    LET mint == <<CallOf("create_peer_did_4", <<"agent_endpoint">>)>>
        inviter_did == invitation_get_first_did_service(invitation)
        version == invitation_get_acceptable_did_exchange_version(invitation)
    IN IF env.peer_did = None
       THEN Done(VCXFrameworkError("create_peer_did_4"), mint, <<>>)
       ELSE IF inviter_did[1] # "Ok"
       THEN Done(inviter_did, mint, <<>>)
       ELSE IF version[1] # "Ok"
       THEN Done(version, mint, <<>>)
       ELSE LET transport_decorator == IF ~mediated THEN Some(ReturnRouteAll) ELSE None
                built == construct_request(request_id, Some(invitation.id),
                                           inviter_did[2], env.peer_did[1],
                                           "agent_label", version[2], transport_decorator)
                construct == mint \o <<CallOf("GenericDidExchange::construct_request",
                                              <<invitation.id>>)>>
            IN IF ~env.constructs
               THEN Done(VCXFrameworkError("GenericDidExchange::construct_request"),
                         construct, <<>>)
               ELSE LET sent == MessagingService_send_message(
                                   built.request, env.peer_did[1], inviter_did[2],
                                   Some(<<"HTTP", "WS">>), trs, menv)
                        made == construct
                                   \o <<CallOf("MessagingService::send_message",
                                               <<built.request>>)>>
                                   \o sent.calls
                        id == Uuid_parse_str(built.request.id)
                        invitation_id == Uuid_parse_str(invitation.id)
                    IN IF sent.result # Ok
                       THEN Done(sent.result, made, <<>>)
                       ELSE IF id[1] # "Ok"
                       THEN Done(id, made, <<>>)
                       ELSE IF invitation_id[1] # "Ok"
                       THEN Done(invitation_id, made, <<>>)
                       ELSE LET record == ConnectionRecord(id[2], invitation_id[2],
                                                           built.state_machine)
                                event == ConnectionEvent(record)
                            IN Done(Ok, made \o <<CallOf("emit_event", <<event.type>>)>>,
                                    <<event>>)

(* The protocol messages a counterparty may send about a connection, by    *)
(* the thread (the request's id) they belong to.                           *)
InboundMessages ==
    [type : {"Request", "Response", "Complete", "ProblemReport"},
     thid : {UuidString(i) : i \in ConnectionIds}]

(* MessagingService::receive_inbound_message: the body is empty (TODO); no *)
(* message is handed to the connection service.                            *)
receive_inbound_message(message) == Done(Ok, <<>>, <<>>)

(* process_response, send_complete, process_request, send_response and     *)
(* process_complete: functions without parameters and with an empty body.  *)
ConnectionHandlers ==
    {"process_response", "send_complete", "process_request", "send_response",
     "process_complete"}

process(handler) == Done(Ok, <<>>, <<>>)

(* ConnectionService::handle_request_and_await: returns Ok(()) at once *)
handle_request_and_await(invitation_id) == Done(Ok, <<>>, <<>>)

(* AriesFrameworkVCX::initialize: the messaging service has the HTTP        *)
(* transport registered, the connection service has no subscriber.  Here   *)
(* event_senders are the connection service's senders and received[rx] is  *)
(* what receiver rx was sent, in order.                                    *)
InitConnection ==
    /\ owner = "ConnectionService"
    /\ records = [i \in {} |-> <<>>]
    /\ tags = <<>>
    /\ written = [i \in Ids |-> None]
    /\ last = Call("new", NoId, FALSE, Ok, <<>>)
    /\ transports = register_transport({}, "HTTP")
    /\ calls = <<>>
    /\ event_senders = <<>>
    /\ received = <<>>
    /\ NoTurns

(* The ids of the connections whose events the receivers hold. *)
ObservedIds(rcvd) ==
    UNION {{rcvd[rx][i].record.id : i \in 1..Len(rcvd[rx])} : rx \in DOMAIN rcvd}

(* The id of a new request is a new Uuid: one that no connection has (ids  *)
(* being interchangeable, the least of them).                              *)
NewUuids(rcvd) ==
    {uuid \in ConnectionIds :
        /\ uuid \notin ObservedIds(rcvd)
        /\ \A other \in ConnectionIds \ ObservedIds(rcvd) : uuid <= other}

RequestConnection ==
    /\ \A rx \in DOMAIN received : Len(received[rx]) < MaxEvents
    /\ \E run \in RequestRuns, uuid \in NewUuids(received) :
          LET invitation == run.invitation
              mediated == run.mediated
              out == request_connection(invitation, mediated, UuidString(uuid),
                                        transports, run.env, run.menv)
              emitted == IF out.events = <<>>
                         THEN [senders |-> event_senders, received |-> received]
                         ELSE ConnectionService_emit_event(event_senders, received,
                                                           out.events[1])
          IN /\ last' = Call("request_connection", NoId, FALSE, out.result,
                             [invitation_id |-> invitation.id, mediated |-> mediated])
             /\ calls' = out.calls
             /\ event_senders' = emitted.senders
             /\ received' = emitted.received
             /\ UNCHANGED <<turnvars, storagevars, transports>>

Inbound(message) ==
    LET out == receive_inbound_message(message)
    IN /\ last' = Call("receive_inbound_message", NoId, FALSE, out.result, message)
       /\ calls' = out.calls
       /\ UNCHANGED <<turnvars, storagevars, transports, event_senders, received>>

ReceiveInboundMessage == \E message \in InboundMessages : Inbound(message)

Process ==
    \E handler \in ConnectionHandlers :
       LET out == process(handler)
       IN /\ last' = Call(handler, NoId, FALSE, out.result, <<>>)
          /\ calls' = out.calls
          /\ UNCHANGED <<turnvars, storagevars, transports, event_senders, received>>

HandleRequestAndAwait ==
    \E invitation_id \in InvitationIdStrings :
       LET out == handle_request_and_await(invitation_id)
       IN /\ last' = Call("handle_request_and_await", NoId, FALSE, out.result,
                          invitation_id)
          /\ calls' = out.calls
          /\ UNCHANGED <<turnvars, storagevars, transports, event_senders, received>>

NextConnection ==
    \/ RegisterEventReceiver
    \/ DropReceiver
    \/ RequestConnection
    \/ ReceiveInboundMessage
    \/ Process
    \/ HandleRequestAndAwait

(* The connection service with its subscribers. *)
SpecConnection == InitConnection /\ [][NextConnection]_vars

(* The same when every message a counterparty sends is delivered. *)
SpecConnectionLive ==
    /\ SpecConnection
    /\ \A message \in InboundMessages : WF_vars(Inbound(message))

(***************************************************************************)
(* Mediated-connection inviter: RespondedState (responded.rs)              *)
(***************************************************************************)
(* SignedResponse: the message id, the thread decorator (its thid may be   *)
(* absent) and the signed connection data.                                 *)
SignedResponses ==
    [id : {UuidString(i) : i \in Ids},
     thread : [thid : {None} \cup {Some(UuidString(i)) : i \in Ids}],
     connection_sig : {"signature"}]

(* AriesDidDoc *)
AriesDidDocs == [id : {their_did("foo"), their_did("foo2")}, endpoint : {"http", "ws"}]

(* ProblemReport of the connection protocol, by its problem code *)
ProblemReports ==
    [problem_code : {"request_not_accepted", "request_processing_error",
                     "response_not_accepted", "response_processing_error"}]

(* RespondedState { signed_response, did_doc } *)
RespondedState(signed_response, did_doc) ==
    [state |-> "RespondedState", signed_response |-> signed_response, did_doc |-> did_doc]

RespondedStates ==
    {RespondedState(signed_response, did_doc) :
        signed_response \in SignedResponses, did_doc \in AriesDidDocs}

(* SignedResponse::get_thread_id: the thid of the thread decorator, the    *)
(* empty string when the decorator has none.                               *)
get_thread_id(signed_response) ==
    IF signed_response.thread.thid = None THEN <<>> ELSE signed_response.thread.thid[1]

(* InitialState::new(problem_report) *)
InitialState_new(problem_report) ==
    [state |-> "InitialState", problem_report |-> problem_report]

(* impl From<(RespondedState, ProblemReport)> for InitialState *)
InitialState_from(state, problem_report) == InitialState_new(Some(problem_report))

(* impl From<RespondedState> for CompletedState *)
CompletedState_from_message_id(state) ==
    [state |-> "CompletedState",
     did_doc |-> state.did_doc,
     thread_id |-> Some(state.signed_response.id),
     protocols |-> None]

CompletedState_from(state) ==
    [state |-> "CompletedState",
     did_doc |-> state.did_doc,
     thread_id |-> Some(get_thread_id(state.signed_response)),
     protocols |-> None]

(* An inviter that has sent its signed response. *)
InitInviter ==
    /\ owner = "SmConnectionInviter"
    /\ records = [i \in {} |-> <<>>]
    /\ tags = <<>>
    /\ written = [i \in Ids |-> None]
    /\ last = Call("new", NoId, FALSE, Ok, <<>>)
    /\ NoMessaging
    /\ tasks = <<>>
    /\ inviter \in RespondedStates

(* InitialState::from((state, problem_report)) on the responded inviter *)
RespondedToInitial ==
    /\ inviter.state = "RespondedState"
    /\ \E problem_report \in ProblemReports :
          /\ inviter' = InitialState_from(inviter, problem_report)
          /\ last' = Call("InitialState::from", NoId, FALSE, Ok,
                          [state |-> inviter, problem_report |-> problem_report])
    /\ UNCHANGED <<storagevars, msgvars, tasks>>

(* CompletedState::from(state) on the responded inviter *)
RespondedToCompleted ==
    /\ inviter.state = "RespondedState"
    /\ inviter' = CompletedState_from(inviter)
    /\ last' = Call("CompletedState::from", NoId, FALSE, Ok, [state |-> inviter])
    /\ UNCHANGED <<storagevars, msgvars, tasks>>

NextInviter ==
    \/ RespondedToInitial
    \/ RespondedToCompleted

(* The inviter state machine from RespondedState on. *)
SpecInviter == InitInviter /\ [][NextInviter]_vars

(***************************************************************************)
(* Properties of the in-memory storage, checked under Spec.  A property of *)
(* one call is stated for every reachable state of the storage and every   *)
(* argument the call may be given there, on the outcome the method         *)
(* computes (which is what the action installs), and on the state the call *)
(* left behind, through `last` and `written`.                              *)
(***************************************************************************)
Valid(record) == Serializable(record.data)

(* The tag entries stored for `id`, and those stored for the other ids. *)
EntriesOf(tgs, id) == SelectSeq(tgs, LAMBDA t : t[2][2] = id)

EntriesOfOthers(tgs, id) == SelectSeq(tgs, LAMBDA t : t[2][2] # id)

(* The tag entries a record should have: one per tag. *)
EntriesFor(record) == {<<k, <<record.tags[k], record.id>>>> : k \in DOMAIN record.tags}

(* Some search returns a record with this id. *)
Searchable(recs, tgs, id) ==
    \E k \in StorageTagKeys, v \in TagValues :
        \E r \in Range(search_records(recs, tgs, k, v)) : r.id = id

Tagged(id) == id \in DOMAIN records /\ get_record(records, id)[1].tags # <<>>

(* C1: tag consistency.  In every state reached by add, add_or_update, update *)
(* and delete calls, for every tag key k and value v, search(k, v) returns a  *)
(* record r if and only if r is what is stored under r.id and r.tags[k] = v.  *)
C1_TagConsistency ==
    \A k \in StorageTagKeys, v \in TagValues :
        LET found == Range(search_records(records, tags, k, v))
        IN \A r \in StorageRecords :
              (r \in found) <=> (/\ get_record(records, r.id) = Some(r)
                                 /\ k \in DOMAIN r.tags
                                 /\ r.tags[k] = v)

(* C1 witness: after an update of a stored record, a search finds the updated *)
(* record under its tag while another stored record is not tagged.            *)
C1_Witness ==
    /\ last.op = "update_record"
    /\ last.result = Ok
    /\ last.existed
    /\ Searchable(records, tags, last.id)
    /\ \E id \in DOMAIN records : ~Searchable(records, tags, id)

(* C2: add_or_update(record) of a record that serialises succeeds, inserting  *)
(* the record when its id is absent and replacing it when present; after it   *)
(* get(record.id) returns the given record and the tag entries stored for     *)
(* record.id are exactly one per tag of the record, the earlier ones dropped; *)
(* the other records and their entries stay.                                  *)
C2_AddOrUpdate ==
    /\ \A record \in StorageRecords, ord \in StorageOrders :
          Valid(record) =>
              LET out == add_or_update_record(records, tags, record, ord)
              IN /\ out.result = Ok
                 /\ get_record(out.records, record.id) = Some(record)
                 /\ DOMAIN out.records = DOMAIN records \cup {record.id}
                 /\ \A j \in DOMAIN records \ {record.id} : out.records[j] = records[j]
                 /\ Range(EntriesOf(out.tags, record.id)) = EntriesFor(record)
                 /\ Len(EntriesOf(out.tags, record.id)) = Cardinality(DOMAIN record.tags)
                 /\ EntriesOfOthers(out.tags, record.id) = EntriesOfOthers(tags, record.id)
    /\ (last.op = "add_or_update_record" /\ last.result = Ok) =>
          /\ get_record(records, last.id) = written[last.id]
          /\ Range(EntriesOf(tags, last.id)) = EntriesFor(written[last.id][1])

(* C2 witness: add_or_update replaced a stored record by a tagged one. *)
C2_Witness ==
    /\ last.op = "add_or_update_record"
    /\ last.result = Ok
    /\ last.existed
    /\ Tagged(last.id)

(* C3: add(record) fails with DuplicateRecord whenever record.id is stored, and *)
(* the failed call leaves the stored records and the tag index unchanged, so    *)
(* get(record.id) still returns the record stored before.                       *)
C3_DuplicateAdd ==
    /\ \A record \in StorageRecords, ord \in StorageOrders :
          record.id \in DOMAIN records =>
              LET out == add_record(records, tags, record, ord)
              IN /\ out.result = Err("DuplicateRecord")
                 /\ out.records = records
                 /\ out.tags = tags
                 /\ get_record(out.records, record.id) = get_record(records, record.id)
    /\ (last.op = "add_record" /\ last.existed) =>
          /\ last.result = Err("DuplicateRecord")
          /\ get_record(records, last.id) = written[last.id]

(* C3 witness: an add was refused as a duplicate of a stored, tagged record. *)
C3_Witness ==
    /\ last.op = "add_record"
    /\ last.result = Err("DuplicateRecord")
    /\ last.existed
    /\ Tagged(last.id)

(* C4: update(record) fails with RecordDoesNotExist whenever record.id is not *)
(* stored, and the failed call creates no record and no tag entries.          *)
C4_UpdateMissing ==
    /\ \A record \in StorageRecords, ord \in StorageOrders :
          record.id \notin DOMAIN records =>
              LET out == update_record(records, tags, record, ord)
              IN /\ out.result = Err("RecordDoesNotExist")
                 /\ out.records = records
                 /\ out.tags = tags
                 /\ get_record(out.records, record.id) = None
                 /\ EntriesOf(out.tags, record.id) = <<>>
    /\ (last.op = "update_record" /\ ~last.existed) =>
          /\ last.result = Err("RecordDoesNotExist")
          /\ get_record(records, last.id) = None
          /\ EntriesOf(tags, last.id) = <<>>

(* C4 witness: an update of an absent id was refused while another id is stored. *)
C4_Witness ==
    /\ last.op = "update_record"
    /\ last.result = Err("RecordDoesNotExist")
    /\ ~last.existed
    /\ DOMAIN records # {}

(* C5: storage round trip.  For every record r that serialises and whose id is *)
(* not stored, add(r) succeeds and get(r.id) then yields Some(r): the same id, *)
(* data and tags.                                                              *)
C5_RoundTrip ==
    /\ \A record \in StorageRecords, ord \in StorageOrders :
          (Valid(record) /\ record.id \notin DOMAIN records) =>
              LET out == add_record(records, tags, record, ord)
              IN /\ out.result = Ok
                 /\ get_record(out.records, record.id) = Some(record)
    /\ (last.op = "add_record" /\ last.result = Ok) =>
          get_record(records, last.id) = written[last.id]
    /\ (last.op = "get_record") => last.value = written[last.id]

(* C5 witness: a tagged record was added and is stored with its tags. *)
C5_Witness ==
    /\ last.op = "add_record"
    /\ last.result = Ok
    /\ Tagged(last.id)
    /\ get_record(records, last.id) = written[last.id]

(* C6: idempotent delete.  delete(id) of an id that is not stored (never added, *)
(* or deleted already) succeeds and leaves the records and the tag index        *)
(* unchanged.                                                                   *)
C6_DeleteAbsent ==
    /\ \A id \in Ids :
          id \notin DOMAIN records =>
              LET out == delete_record(records, tags, id)
              IN /\ out.result = Ok
                 /\ out.records = records
                 /\ out.tags = tags
    /\ last.op = "delete_record" => last.result = Ok

(* C6 witness: an absent id was deleted while a tagged record is stored. *)
C6_Witness ==
    /\ last.op = "delete_record"
    /\ ~last.existed
    /\ last.result = Ok
    /\ tags # <<>>

(* The id is not stored and no search returns it. *)
Gone(recs, tgs, id) == get_record(recs, id) = None /\ ~Searchable(recs, tgs, id)

(* C7: after delete(id) of a stored record get(id) returns None and no search *)
(* returns a record with that id, and that stays so until an add or an        *)
(* add_or_update stores the id again; every other record and its tag entries  *)
(* are left unchanged.                                                        *)
C7_Delete ==
    /\ \A id \in DOMAIN records :
          LET out == delete_record(records, tags, id)
          IN /\ out.result = Ok
             /\ Gone(out.records, out.tags, id)
             /\ \A j \in Ids \ {id} : get_record(out.records, j) = get_record(records, j)
             /\ EntriesOfOthers(out.tags, id) = EntriesOfOthers(tags, id)
    /\ \A id \in Ids \ DOMAIN records :
          /\ Gone(records, tags, id)
          /\ \A j \in Ids :
                LET out == delete_record(records, tags, j)
                IN Gone(out.records, out.tags, id)
          /\ \A record \in StorageRecords, ord \in StorageOrders :
                /\ LET out == update_record(records, tags, record, ord)
                   IN Gone(out.records, out.tags, id)
                /\ record.id # id =>
                      /\ LET out == add_record(records, tags, record, ord)
                         IN Gone(out.records, out.tags, id)
                      /\ LET out == add_or_update_record(records, tags, record, ord)
                         IN Gone(out.records, out.tags, id)
    /\ last.op = "delete_record" => Gone(records, tags, last.id)

(* C7 witness: a stored record was deleted while a tagged record stays stored. *)
C7_Witness ==
    /\ last.op = "delete_record"
    /\ last.existed
    /\ tags # <<>>

(* C8: update(record) of a stored id with a record that serialises replaces the *)
(* stored record: get(record.id) returns the updated record, a search by a tag  *)
(* value only the old record had no longer returns a record with that id, and a *)
(* search by each tag of the new record returns it.                             *)
C8_Update ==
    /\ \A record \in StorageRecords, ord \in StorageOrders :
          (Valid(record) /\ record.id \in DOMAIN records) =>
              LET out == update_record(records, tags, record, ord)
                  old == get_record(records, record.id)[1]
              IN /\ out.result = Ok
                 /\ get_record(out.records, record.id) = Some(record)
                 /\ \A k \in DOMAIN old.tags :
                       (k \notin DOMAIN record.tags \/ record.tags[k] # old.tags[k]) =>
                           \A r \in Range(search_records(out.records, out.tags, k,
                                                         old.tags[k])) :
                               r.id # record.id
                 /\ \A k \in DOMAIN record.tags :
                       record \in Range(search_records(out.records, out.tags, k,
                                                       record.tags[k]))
    /\ (last.op = "update_record" /\ last.result = Ok) =>
          /\ get_record(records, last.id) = written[last.id]
          /\ \A k \in StorageTagKeys, v \in TagValues :
                (\E r \in Range(search_records(records, tags, k, v)) : r.id = last.id)
                    <=> (k \in DOMAIN written[last.id][1].tags
                         /\ written[last.id][1].tags[k] = v)

(* C8 witness: an update replaced a stored record by a tagged one, in a state *)
(* where a further update would change the tag value again.                   *)
C8_Witness ==
    /\ last.op = "update_record"
    /\ last.result = Ok
    /\ last.existed
    /\ Tagged(last.id)
    /\ \E record \in StorageRecords :
          /\ Valid(record)
          /\ record.id = last.id
          /\ \E k \in DOMAIN record.tags :
                record.tags[k] # get_record(records, last.id)[1].tags[k]

(* The positions at which `all` lists a record with this id. *)
Positions(all, id) == {n \in 1..Len(all) : all[n].id = id}

(* `all` lists exactly `value` for `id` (nothing when value is None). *)
Lists(all, id, value) ==
    IF value = None
    THEN Positions(all, id) = {}
    ELSE /\ Cardinality(Positions(all, id)) = 1
         /\ \A n \in Positions(all, id) : all[n] = value[1]

(* C9: get_all returns, in any order, exactly one record for every id that is *)
(* stored, equal to the value last written for that id, and nothing for an id *)
(* that was deleted or never written.                                         *)
C9_GetAll ==
    /\ \A io \in IdOrders :
          LET all == get_all_records(records, io)
          IN /\ Len(all) = Cardinality({id \in Ids : written[id] # None})
             /\ \A id \in Ids : Lists(all, id, written[id])
    /\ last.op = "get_all_records" =>
          /\ Len(last.value) = Cardinality({id \in Ids : written[id] # None})
          /\ \A id \in Ids : Lists(last.value, id, written[id])

(* C9 witness: get_all returned at least two records, one of them tagged.   *)
C9_Witness ==
    /\ last.op = "get_all_records"
    /\ Len(last.value) >= 2
    /\ \E n \in 1..Len(last.value) : last.value[n].tags # <<>>

(***************************************************************************)
(* Properties of the repositories, checked under SpecRepo.                 *)
(***************************************************************************)
Repository_add_or_update_record(recs, tgs, record, ord) ==
    IF owner = "ConnectionRepository"
    THEN ConnectionRepository_add_or_update_record(recs, tgs, record, ord)
    ELSE DidRepository_add_or_update_record(recs, tgs, record, ord)

Repository_get_record(recs, id) ==
    IF owner = "ConnectionRepository"
    THEN ConnectionRepository_get_record(recs, id)
    ELSE DidRepository_get_record(recs, id)

RepositoryRecords ==
    IF owner = "ConnectionRepository" THEN ConnectionRecords ELSE DidRecords

RepositoryOrders ==
    IF owner = "ConnectionRepository" THEN ConnectionOrders ELSE DidOrders

(* C10: add_or_update_record of ConnectionRepository and of DidRepository      *)
(* succeeds both when the record's id is absent and when it is present, and    *)
(* get_record for that id then returns the given record.                       *)
C10_RepositoryAddOrUpdate ==
    /\ last.op = "add_or_update_record" => last.result = Ok
    /\ \A record \in RepositoryRecords, ord \in RepositoryOrders :
          LET out == Repository_add_or_update_record(records, tags, record, ord)
          IN /\ out.result = Ok
             /\ Repository_get_record(out.records, record.id) = Some(record)

(***************************************************************************)
(* Properties of a repository over a failing backend, checked under        *)
(* SpecBackend.                                                            *)
(***************************************************************************)
(* The error variant that names a repository operation. *)
OperationFailed(op) ==
    CASE op = "add_or_update_record" -> "AddOrUpdateRecordFailed"
      [] op = "get_record" -> "GetRecordFailed"
      [] op = "get_all_records" -> "GetAllRecordsFailed"
      [] op = "search_records" -> "SearchRecordsFailed"
      [] op = "delete_record" -> "DeleteRecordFailed"

(* C11: a repository operation that fails because of a storage error returns   *)
(* the error variant naming that operation, wrapping the storage error:        *)
(* get_record gives GetRecordFailed, get_all_records GetAllRecordsFailed,      *)
(* search_records SearchRecordsFailed, delete_record DeleteRecordFailed and    *)
(* add_or_update_record AddOrUpdateRecordFailed.                               *)
C11_ErrorWrapping ==
    (last.op # "new" /\ last.result # Ok) =>
        /\ Len(last.result) = 2
        /\ last.result[1] = OperationFailed(last.op)
        /\ last.result[2] \in StorageErrors

(***************************************************************************)
(* Properties of the DID repository, checked under SpecDid.                *)
(***************************************************************************)
(* `record` carries the tag value `v` under KeyAgreementKey. *)
CarriesKeyAgreementKey(record, v) ==
    "KeyAgreementKey" \in DOMAIN record.tags /\ record.tags["KeyAgreementKey"] = v

(* C12: the DID repository is a faithful view of its storage: after            *)
(* add_or_update_record(r) on a repository that did not hold r.id,             *)
(* get_record(r.id) returns Some(r), get_all_records contains r,               *)
(* search_records(KeyAgreementKey, v) returns r exactly when r carries that    *)
(* tag value, and after delete_record(r.id) get_record(r.id) returns None.     *)
C12_DidRepositoryView ==
    /\ \A record \in DidRecords, ord \in DidOrders :
          record.id \notin DOMAIN records =>
             LET out == DidRepository_add_or_update_record(records, tags, record, ord)
                 del == DidRepository_delete_record(out.records, out.tags, record.id)
             IN /\ out.result = Ok
                /\ DidRepository_get_record(out.records, record.id) = Some(record)
                /\ \A io \in IdOrders : record \in Range(get_all_records(out.records, io))
                /\ \A v \in TagValues :
                      record \in Range(search_records(out.records, out.tags,
                                                      "KeyAgreementKey", v))
                         <=> CarriesKeyAgreementKey(record, v)
                /\ del.result = Ok
                /\ DidRepository_get_record(del.records, record.id) = None
    /\ (last.op = "add_or_update_record" /\ ~last.existed) =>
          /\ last.result = Ok
          /\ DidRepository_get_record(records, last.id) = written[last.id]
          /\ written[last.id] # None
    /\ last.op = "delete_record" =>
          /\ last.result = Ok
          /\ DidRepository_get_record(records, last.id) = None

(* C12 witness: a tagged record was added under a DID the repository did not   *)
(* hold, next to another record.                                               *)
C12_Witness ==
    /\ owner = "DidRepository"
    /\ last.op = "add_or_update_record"
    /\ ~last.existed
    /\ last.result = Ok
    /\ Tagged(last.id)
    /\ Cardinality(DOMAIN records) = 2

(***************************************************************************)
(* Properties of the messaging service of vcx_framework, checked under     *)
(* SpecMessaging.                                                          *)
(***************************************************************************)
(* The names of the calls in a sequence of calls. *)
Names(made) == {made[i].call : i \in 1..Len(made)}

(* C13: send_message with a connection_id for which no ConnectionRecord is     *)
(* stored returns ConnectionRecordNotFound(connection_id); no DID is resolved, *)
(* nothing is packed, no transport is asked to send and no event is emitted.   *)
C13_UnknownConnection ==
    /\ \A message \in Messages, connection_id \in Ids \ DOMAIN records,
          preferred \in PreferredTransports, env \in Environments :
          LET out == send_message(records, message, connection_id, preferred,
                                  transports, env)
          IN /\ out.result = <<"ConnectionRecordNotFound", connection_id>>
             /\ Names(out.calls) = {"ConnectionRepository::get_record"}
             /\ out.events = <<>>
    /\ (last.op = "send_message" /\ ~last.existed) =>
          /\ last.result = <<"ConnectionRecordNotFound", last.id>>
          /\ Names(calls) = {"ConnectionRepository::get_record"}
          /\ received = <<>>

(* C13 witness: a message was sent to a connection id that is not stored, on   *)
(* a service that has a transport and a repository that holds a record.        *)
C13_Witness ==
    /\ last.op = "send_message"
    /\ ~last.existed
    /\ transports # {}
    /\ DOMAIN records # {}

(* The calls that hand a message to the transports. *)
DispatchCalls == {"TransportRegistry::send_message", "Transport::send_message"}

(* The recipient's document has a DIDCommV1 service. *)
HasService(env) ==
    env.resolved # None /\ get_service_of_type(env.resolved[1], "DIDCommV1") # None

(* C14: in send_message a failure in a step before dispatch returns that       *)
(* step's error and the transport registry is never asked to send: failure     *)
(* resolving their_did gives DidResolution, failure resolving our_did gives    *)
(* DidResolutionPeerDid, a recipient DID document without a DIDCommV1 service  *)
(* gives InvalidDidDocService and a wallet packing failure gives               *)
(* EncryptMessage.                                                             *)
C14_FailureBeforeDispatch ==
    /\ \A message \in Messages, connection_id \in DOMAIN records,
          preferred \in PreferredTransports, env \in Environments :
          LET out == send_message(records, message, connection_id, preferred,
                                  transports, env)
              data == get_record(records, connection_id)[1].data
              failed == \/ env.resolved = None
                        \/ ~env.peer
                        \/ ~HasService(env)
                        \/ ~env.packs
          IN env.fault = None =>
                /\ env.resolved = None => out.result = <<"DidResolution", their_did(data)>>
                /\ (env.resolved # None /\ ~env.peer) =>
                      out.result = <<"DidResolutionPeerDid", our_did(data)>>
                /\ (env.resolved # None /\ env.peer /\ ~HasService(env)) =>
                      out.result = <<"InvalidDidDocService", their_did(data)>>
                /\ (env.peer /\ HasService(env) /\ ~env.packs) =>
                      out.result = <<"EncryptMessage">>
                /\ failed => Names(out.calls) \cap DispatchCalls = {}
                /\ ~failed => "TransportRegistry::send_message" \in Names(out.calls)
    /\ (last.op = "send_message"
          /\ last.result[1] \in {"DidResolution", "DidResolutionPeerDid",
                                 "InvalidDidDocService", "EncryptMessage"}) =>
          Names(calls) \cap DispatchCalls = {}

(* C14 witness: the wallet failed to pack a message for a stored connection,   *)
(* on a service that has a transport.                                          *)
C14_Witness ==
    /\ last.op = "send_message"
    /\ last.existed
    /\ last.result = <<"EncryptMessage">>
    /\ transports # {}

(* The positions of the calls named `name` in a sequence of calls. *)
CallsNamed(made, name) == {i \in 1..Len(made) : made[i].call = name}

(* An event of the type was emitted before the first dispatch. *)
EmittedBeforeDispatch(made, type) ==
    \E i \in CallsNamed(made, "emit_event") :
       /\ made[i].args = <<type>>
       /\ \A j \in 1..Len(made) : made[j].call \in DispatchCalls => i < j

(* C15: send_message emits an OutboundMessage event carrying the plaintext,    *)
(* the envelope and both DIDs before it dispatches to any transport, so every  *)
(* subscriber registered at that time observes the event even when the         *)
(* dispatch then fails.                                                        *)
C15_OutboundEventBeforeDispatch ==
    (last.op = "send_message" /\ Names(calls) \cap DispatchCalls # {}) =>
        /\ EmittedBeforeDispatch(calls, "OutboundMessage")
        /\ \A rx \in Range(event_senders) :
              /\ received[rx] # <<>>
              /\ received[rx][Len(received[rx])].type = "OutboundMessage"

(***************************************************************************)
(* Properties of the messaging service of aries_framework_vcx, checked     *)
(* under SpecFramework.                                                    *)
(***************************************************************************)
(* The types of the events a receiver holds, oldest first. *)
Types(events) == [i \in 1..Len(events) |-> events[i].type]

(* C16: when the transport returns Some(returned_envelope) for a dispatched    *)
(* message, send_message runs the receive path on it inline before returning,  *)
(* and the receive path emits an InboundMessage event: a subscriber observes   *)
(* the OutboundMessage event and then the InboundMessage event, in that order. *)
C16_ReturnRouteReply ==
    (/\ last.op = "send_message"
     /\ last.result = Ok
     /\ "EncryptionEnvelope::unpack" \in Names(calls)) =>
        /\ \E i, j \in CallsNamed(calls, "emit_event") :
              i < j /\ calls[i].args = <<"OutboundMessage">>
                    /\ calls[j].args = <<"InboundMessage">>
        /\ \A rx \in Range(event_senders) :
              /\ Len(received[rx]) >= 2
              /\ SubSeq(Types(received[rx]), Len(received[rx]) - 1, Len(received[rx]))
                    = <<"OutboundMessage", "InboundMessage">>

(* C17: send_message tries the transports in the order of preferred_transports *)
(* (or WS then HTTP when none is given), the first successful dispatch wins    *)
(* and later transports are not tried; if no transport succeeds, including     *)
(* when none of the listed transports is registered or an earlier one fails,   *)
(* send_message fails with OutboundTransportError (this service has one error  *)
(* type, which stands for it).                                                 *)
C17_TransportIteration ==
    (last.op = "send_message" /\ "emit_event" \in Names(calls)) =>
        LET order == IF last.value = None THEN <<"WS", "HTTP">> ELSE last.value[1]
            registered == SelectSeq(order, LAMBDA scheme : scheme \in transports)
            sends == SelectSeq(calls, LAMBDA c : c.call = "Transport::send_message")
        IN /\ registered = <<>> =>
                 /\ sends = <<>>
                 /\ last.result[1] \in {"OutboundTransportError", "VCXFrameworkError"}
           /\ registered # <<>> =>
                 /\ sends # <<>>
                 /\ sends[1].args[1] = registered[1]
           /\ last.result = Ok => Len(sends) = 1

(***************************************************************************)
(* Properties of the transports, checked under SpecTransport.              *)
(***************************************************************************)
(* The scheme an endpoint written with one of the four known schemes is    *)
(* served by.                                                              *)
KnownSchemes == {http, https, ws, wss}

SchemeOf(scheme) == IF scheme \in {http, https} THEN "HTTP" ELSE "WS"

(* What TransportRegistry.send is to do with `endpoint` when the transport *)
(* it may delegate to returns `reply`.                                     *)
SendsAsSpecified(trs, message, endpoint, reply, out) ==
    IF endpoint.scheme \notin KnownSchemes
    THEN out.result[1] = "InvalidTransportScheme" /\ out.calls = <<>>
    ELSE IF SchemeOf(endpoint.scheme) \notin trs
    THEN /\ out.result = <<"NoRegisteredTransportForScheme", SchemeOf(endpoint.scheme)>>
         /\ out.calls = <<>>
    ELSE /\ out.result = reply
         /\ out.calls = <<CallOf("Transport::send_message",
                                 <<SchemeOf(endpoint.scheme), message, endpoint>>)>>

(* C18: TransportRegistry.send fails with InvalidTransportScheme when the      *)
(* endpoint's scheme is not one of http, https, ws, wss, fails with            *)
(* NoRegisteredTransportForScheme(scheme) when the scheme is recognised but no *)
(* transport is registered for it (only HTTP registered and wss://host/in      *)
(* gives NoRegisteredTransportForScheme(WS)), and otherwise delegates exactly  *)
(* once to the transport registered for that scheme and returns its result.    *)
C18_RegistrySend ==
    /\ \A message \in Messages, endpoint \in Endpoints, reply \in TransportResults :
          SendsAsSpecified(transports, message, endpoint, reply,
                           TransportRegistry_send_message(transports, message, endpoint, reply))
    /\ last.op = "send_message" =>
          SendsAsSpecified(transports, Envelope("ping", "our_did", "their_did"),
                           last.value.endpoint, last.value.reply,
                           [result |-> last.result, calls |-> calls])
    /\ (last.op = "send_message" /\ transports = {"HTTP"} /\ last.value.endpoint.scheme = wss) =>
          last.result = <<"NoRegisteredTransportForScheme", "WS">>

(* C18 witness: with only HTTP registered, a message was sent to wss://host/in *)
C18_Witness ==
    /\ last.op = "send_message"
    /\ transports = {"HTTP"}
    /\ last.value.endpoint = [scheme |-> wss, address |-> "host/in"]
    /\ last.result = <<"NoRegisteredTransportForScheme", "WS">>
    /\ calls = <<>>

(* What scheme parsing is to give for the string `s`. *)
ParsesAsSpecified(s, result) ==
    IF s \in CaseVariants(http) \cup CaseVariants(https) THEN result = OkOf("HTTP")
    ELSE IF s \in CaseVariants(ws) \cup CaseVariants(wss) THEN result = OkOf("WS")
    ELSE result = <<"InvalidTransportScheme", s>>

(* C19: scheme parsing is case-insensitive and total on the four known         *)
(* schemes: any case variant of http or https parses to HTTP, any case variant *)
(* of ws or wss parses to WS, and every other string fails with                *)
(* InvalidTransportScheme carrying the original string.                        *)
C19_SchemeParsing ==
    /\ \A s \in SchemeStrings : ParsesAsSpecified(s, from_str(s))
    /\ last.op = "from_str" => ParsesAsSpecified(last.value, last.result)

(* C19 witness: a scheme written in mixed case was parsed to HTTP. *)
C19_Witness ==
    /\ last.op = "from_str"
    /\ last.value = <<"h", "T", "t", "P", "s">>
    /\ last.result = OkOf("HTTP")

Is2xx(status) == status \in 200..299

(* C20: the HTTP transport returns Some(envelope) for a 2xx response whose     *)
(* body parses as an envelope; a 2xx response with any other body and every    *)
(* non-2xx response (even one whose body parses as an envelope) yield an empty *)
(* optional.                                                                   *)
C20_HttpReplyRule ==
    (last.op = "HttpTransport::send_message" /\ last.value.sent) =>
        IF Is2xx(last.value.status) /\ Len(last.value.body) > 0 /\ last.value.body[1] = "jwe"
        THEN last.result = OkOf(Some(last.value.body))
        ELSE last.result = OkOf(None)


(***************************************************************************)
(* The transport a dispatch uses, checked under SpecFramework.             *)
(***************************************************************************)
(* C30: when send_message dispatches to a recipient service endpoint, the      *)
(* transport used is the one registered for the scheme of that endpoint's URL; *)
(* the envelope is never handed to a transport registered for a different      *)
(* scheme, whatever the preferred_transports list says.                        *)
C30_SchemeDictatesTransport ==
    last.op = "send_message" =>
        \A i \in CallsNamed(calls, "Transport::send_message") :
           calls[i].args[1] = SchemeOf(calls[i].args[2].scheme)


(***************************************************************************)
(* Properties of the event bus, checked under SpecFramework.               *)
(***************************************************************************)
(* The types of the events the calls of one operation emitted, in order. *)
EmittedTypes(made) ==
    LET emits == SelectSeq(made, LAMBDA c : c.call = "emit_event")
    IN [i \in 1..Len(emits) |-> emits[i].args[1]]

(* One emit on the senders and receivers of the state: every receiver that *)
(* exists and was registered holds one more event, the emitted one, after  *)
(* those it held; the senders left are those whose receiver exists, in the *)
(* order they had.                                                         *)
DeliversAndPrunes(event, out) ==
    /\ DOMAIN out.received = DOMAIN received
    /\ \A rx \in DOMAIN received :
          out.received[rx] = IF rx \in Range(event_senders)
                             THEN received[rx] \o <<event>>
                             ELSE received[rx]
    /\ out.senders = SelectSeq(event_senders, LAMBDA tx : tx \in DOMAIN received)

(* C27: event bus delivery and lazy pruning: for each service, every           *)
(* subscriber whose receiver is alive receives a copy of every event emitted   *)
(* after it registered, exactly once and in emission order; a sink whose       *)
(* receiver has been dropped is removed from the subscriber list by the next   *)
(* emit, and a sink whose receiver is alive is never removed.                  *)
C27_EventBus ==
    /\ [](/\ DOMAIN received \subseteq Range(event_senders)
          /\ \A message \in Messages :
                LET event == OutboundMessage(message, Envelope(message, "a", "b"), "a", "b")
                IN DeliversAndPrunes(event, emit_event(event_senders, received, event)))
    /\ [][/\ \A tx \in Range(event_senders) :
                tx \in DOMAIN received' => tx \in Range(event_senders')
          /\ \A rx \in DOMAIN received \cap DOMAIN received' :
                IF last'.op = "recv" /\ last'.value = rx
                THEN received'[rx] = Tail(received[rx])
                ELSE Types(received'[rx]) = Types(received[rx]) \o EmittedTypes(calls')
          /\ EmittedTypes(calls') # <<>> =>
                Range(event_senders') \subseteq DOMAIN received']_vars

(* C27 witness: the first subscriber dropped its receiver and the second   *)
(* did not; an emit then removed the first sender and queued the event at  *)
(* the second receiver.                                                    *)
C27_Witness ==
    /\ last.op = "send_message"
    /\ EmittedTypes(calls) = <<"OutboundMessage">>
    /\ event_senders = <<2>>
    /\ DOMAIN received = {2}
    /\ Types(received[2]) = <<"OutboundMessage">>


(***************************************************************************)
(* Properties of the invitation service, checked under SpecInvitation.     *)
(***************************************************************************)
(* The invitation is stored under its id. *)
InvitationPersisted(invitation) ==
    \E i \in Ids :
       /\ UuidString(i) = invitation.id
       /\ i \in DOMAIN records \/ written[i] # None

(* C28: create_invitation builds an out-of-band invitation with exactly one    *)
(* service (a DID reference to a freshly minted peer DID) advertising          *)
(* DID-Exchange v1.1, persists the invitation (id, our DID), and emits exactly *)
(* one InvitationEvent with state "created" per successful call; a call that   *)
(* fails emits no event.                                                       *)
C28_CreateInvitation ==
    last.op = "create_invitation" =>
        IF last.result[1] = "Ok"
        THEN LET invitation == last.result[2]
             IN /\ Len(invitation.services) = 1
                /\ invitation.services[1].type = "Did"
                /\ invitation.services[1].did \in PeerDids
                /\ invitation.handshake_protocols = <<DidExchangeTypeV1_new_v1_1>>
                /\ EmittedTypes(calls) = <<"InvitationEvent">>
                /\ \A rx \in Range(event_senders) :
                      /\ received[rx] # <<>>
                      /\ received[rx][Len(received[rx])] = InvitationEvent("created")
                /\ InvitationPersisted(invitation)
        ELSE EmittedTypes(calls) = <<>>


(***************************************************************************)
(* Properties of the connection service, checked under SpecConnection.     *)
(***************************************************************************)
(* The requests handed to the messaging service by the calls of one        *)
(* operation.                                                              *)
RequestsSent(made) ==
    LET sends == SelectSeq(made, LAMBDA c : c.call = "MessagingService::send_message")
    IN [i \in 1..Len(sends) |-> sends[i].args[1]]

(* What a successful request_connection(invitation, mediated) leaves: one  *)
(* request sent, with return_route=all exactly when not mediated, and the  *)
(* record of a connection in state Requested for that invitation.          *)
RequestsAsSpecified(invitation_id, mediated, made, record) ==
    /\ Len(RequestsSent(made)) = 1
    /\ RequestsSent(made)[1].type = "Request"
    /\ RequestsSent(made)[1].transport = Some([return_route |-> "all"]) <=> ~mediated
    /\ RequestsSent(made)[1].transport = None <=> mediated
    /\ record.state_machine = "Requested"
    /\ UuidString(record.invitation_id) = invitation_id
    /\ UuidString(record.id) = RequestsSent(made)[1].id

(* C24: after a successful request_connection(invitation, mediated), a         *)
(* ConnectionRecord is created for the connection with state Requested and     *)
(* invitation_id equal to the invitation's id, and the outbound Request        *)
(* carries the transport decorator return_route=all exactly when mediated is   *)
(* false.                                                                      *)
C24_RequestConnection ==
    /\ \A run \in RequestRuns, uuid \in ConnectionIds :
          LET out == request_connection(run.invitation, run.mediated, UuidString(uuid),
                                        transports, run.env, run.menv)
          IN out.result = Ok =>
                /\ Len(out.events) = 1
                /\ out.events[1].type = "ConnectionEvent"
                /\ RequestsAsSpecified(run.invitation.id, run.mediated, out.calls,
                                       out.events[1].record)
    /\ (last.op = "request_connection" /\ last.result = Ok) =>
          /\ EmittedTypes(calls)[Len(EmittedTypes(calls))] = "ConnectionEvent"
          /\ \A rx \in Range(event_senders) :
                /\ received[rx] # <<>>
                /\ received[rx][Len(received[rx])].type = "ConnectionEvent"
                /\ RequestsAsSpecified(last.value.invitation_id, last.value.mediated, calls,
                                       received[rx][Len(received[rx])].record)

(* C24 witness: a request without mediator was dispatched with             *)
(* return_route=all and a subscriber holds the record in state Requested.  *)
C24_Witness ==
    /\ last.op = "request_connection"
    /\ last.result = Ok
    /\ ~last.value.mediated
    /\ "Transport::send_message" \in Names(calls)
    /\ RequestsSent(calls)[1].transport = Some(ReturnRouteAll)
    /\ \E rx \in Range(event_senders) :
          /\ Len(received[rx]) = 1
          /\ received[rx][1].record.state_machine = "Requested"
          /\ UuidString(received[rx][1].record.invitation_id) = last.value.invitation_id


(* The states of connection `id` that the events of one receiver show,     *)
(* oldest first, and the state the connection is in for that receiver.     *)
StatesOf(events, id) ==
    LET own == SelectSeq(events, LAMBDA event : event.record.id = id)
    IN [i \in 1..Len(own) |-> own[i].record.state_machine]

CurrentState(events, id) ==
    IF StatesOf(events, id) = <<>>
    THEN "None"
    ELSE StatesOf(events, id)[Len(StatesOf(events, id))]

(* The table of DID-Exchange transitions: the state a connection in        *)
(* `state` goes to on a message of the type, "Undefined" where the table   *)
(* has no row.                                                             *)
Transition(state, type) ==
    CASE type = "ProblemReport" -> "Abandoned"
      [] type = "Request" /\ state = "Invited" -> "Responded"
      [] type = "Response" /\ state = "Requested" -> "Completed"
      [] type = "Complete" /\ state = "Responded" -> "Completed"
      [] OTHER -> "Undefined"

(* The step delivers a protocol message of the thread of connection `id`. *)
Delivers(call, id) ==
    call.op = "receive_inbound_message" /\ call.value.thid = UuidString(id)

(* The types of the messages the calls of one operation handed to the      *)
(* messaging service.                                                      *)
SentTypes(made) == {RequestsSent(made)[i].type : i \in 1..Len(RequestsSent(made))}

(* C21: the DID-Exchange connection state follows only the transitions of the  *)
(* table: Invited goes to Responded on receiving a Request, Requested goes to  *)
(* Completed on receiving a Response, Responded goes to Completed on receiving *)
(* a Complete, and any state goes to Abandoned on a ProblemReport; no other    *)
(* change of a connection's state is reachable.                                *)
C21_Transitions ==
    [][\A rx \in DOMAIN received \cap DOMAIN received', id \in ConnectionIds :
          LET from == CurrentState(received[rx], id)
              to == CurrentState(received'[rx], id)
          IN from # "None" =>
                /\ to # from =>
                      /\ Delivers(last', id)
                      /\ to = Transition(from, last'.value.type)
                /\ (Delivers(last', id)
                      /\ Transition(from, last'.value.type) # "Undefined") =>
                      to = Transition(from, last'.value.type)]_vars

(* C22: state-machine totality: for every pair of a connection state (Invited, *)
(* Requested, Responded, Completed, Abandoned) and an incoming event (Request, *)
(* Response, Complete, ProblemReport), exactly one outcome is defined, either  *)
(* one transition or a ProblemReport result; no pair is undefined and no pair  *)
(* has two outcomes.                                                           *)
C22_Totality ==
    [][\A rx \in DOMAIN received \cap DOMAIN received', id \in ConnectionIds :
          (Delivers(last', id) /\ CurrentState(received[rx], id) \in ConnectionStates) =>
             LET transitions == Len(StatesOf(received'[rx], id))
                                   - Len(StatesOf(received[rx], id))
                 reports == IF "ProblemReport" \in SentTypes(calls') THEN 1 ELSE 0
             IN transitions + reports = 1]_vars

(* C23: a protocol message that does not match the current state of its       *)
(* connection is dropped without applying its transition, a ProblemReport is   *)
(* sent to the counterparty, and the connection transitions to Abandoned.      *)
C23_MismatchAbandons ==
    [][\A rx \in DOMAIN received \cap DOMAIN received', id \in ConnectionIds :
          (/\ Delivers(last', id)
           /\ CurrentState(received[rx], id) \in ConnectionStates
           /\ Transition(CurrentState(received[rx], id), last'.value.type)
                 = "Undefined") =>
             /\ "ProblemReport" \in SentTypes(calls')
             /\ StatesOf(received'[rx], id)
                   = StatesOf(received[rx], id) \o <<"Abandoned">>]_vars

(* C25: with all three ConnectionServiceConfig switches true (the default),    *)
(* once request_connection has been called on a valid invitation and every     *)
(* sent message is delivered, the requester's connection eventually reaches    *)
(* Completed without any further application call, and a ConnectionEvent is    *)
(* emitted at each state change on the way: a receiver that holds the          *)
(* connection's events comes to hold the one of Completed (of Abandoned when   *)
(* the counterparty reported a problem instead).                               *)
C25_AutoHandshake ==
    \A id \in ConnectionIds :
       (/\ ConnectionServiceConfig_default.auto_complete_requests
        /\ ConnectionServiceConfig_default.auto_handle_requests
        /\ ConnectionServiceConfig_default.auto_respond_to_requests
        /\ \E rx \in DOMAIN received : CurrentState(received[rx], id) = "Requested")
       ~> (\A rx \in DOMAIN received :
              CurrentState(received[rx], id) \in {"None", "Completed", "Abandoned"})

(* The events a step is to add for connection `id`, which a receiver sees  *)
(* in state `from`: the one of Requested for its request, and the one of   *)
(* the state a delivered message takes it to.                              *)
TransitionsOf(call, made, id, from) ==
    IF call.op = "request_connection" /\ call.result = Ok
    THEN IF RequestsSent(made)[1].id = UuidString(id) THEN <<"Requested">> ELSE <<>>
    ELSE IF Delivers(call, id) /\ from # "None"
    THEN IF Transition(from, call.value.type) = "Undefined"
         THEN <<"Abandoned">>
         ELSE <<Transition(from, call.value.type)>>
    ELSE <<>>

(* C26: event order per connection: for any connection, the ConnectionEvents   *)
(* emitted are one per state transition and in exactly the order of those      *)
(* transitions, so any single subscriber observing transitions t1 before t2    *)
(* sees their events in that order (on the happy path the inviter observes     *)
(* Responded then Completed).                                                  *)
C26_EventOrder ==
    [][\A rx \in DOMAIN received \cap DOMAIN received', id \in ConnectionIds :
          StatesOf(received'[rx], id)
             = StatesOf(received[rx], id)
                  \o TransitionsOf(last', calls', id,
                                   CurrentState(received[rx], id))]_vars


(***************************************************************************)
(* Failed serialisation in the in-memory storage, checked under Spec.      *)
(***************************************************************************)
SerializationFailed(out) == out.result = Err("Serialization")

LeavesStorage(out) == out.records = records /\ out.tags = tags

(* C35: in the in-memory storage a call to add_record, add_or_update_record *)
(* or update_record that fails with a Serialization error leaves the stored *)
(* records and the tag index exactly as they were before the call; and a    *)
(* record that does not serialise makes add_or_update_record fail so, as    *)
(* well as add_record on a free id and update_record on a stored one.       *)
C35_SerializationFrame ==
    /\ \A record \in StorageInputs, ord \in StorageOrders :
          /\ LET out == add_record(records, tags, record, ord)
             IN /\ SerializationFailed(out) => LeavesStorage(out)
                /\ (~Serializable(record.data) /\ record.id \notin DOMAIN records)
                      => SerializationFailed(out)
          /\ LET out == add_or_update_record(records, tags, record, ord)
             IN /\ SerializationFailed(out) => LeavesStorage(out)
                /\ ~Serializable(record.data) => SerializationFailed(out)
          /\ LET out == update_record(records, tags, record, ord)
             IN /\ SerializationFailed(out) => LeavesStorage(out)
                /\ (~Serializable(record.data) /\ record.id \in DOMAIN records)
                      => SerializationFailed(out)
    /\ (last.result = Err("Serialization") /\ ~last.existed) => last.id \notin DOMAIN records

(* update_record failed with a Serialization error on a stored record that *)
(* has entries in the tag index.                                            *)
C35_Witness ==
    /\ last.op = "update_record"
    /\ last.result = Err("Serialization")
    /\ last.existed
    /\ \E i \in 1..Len(tags) : tags[i][2][2] = last.id


(***************************************************************************)
(* Shape of the tag index, checked under Spec.                             *)
(***************************************************************************)
(* The positions of the tag index that hold an entry of `id` under `k`. *)
PositionsOf(id, k) == {i \in 1..Len(tags) : tags[i][1] = k /\ tags[i][2][2] = id}

NoDuplicates(s) == \A i, j \in 1..Len(s) : s[i] = s[j] => i = j

(* C36: in every reachable state of the in-memory storage every entry       *)
(* (tag_key, tag_value, id) of the tag index refers to an id that is stored, *)
(* each stored id has exactly one entry per tag of its stored record, with   *)
(* that tag's value, and no entry under any other key, so that no search     *)
(* returns the same record twice.                                            *)
C36_TagIndexShape ==
    /\ \A i \in 1..Len(tags) : tags[i][2][2] \in DOMAIN records
    /\ \A id \in DOMAIN records :
          LET stored == from_string(records[id])
          IN \A k \in StorageTagKeys :
                IF k \in DOMAIN stored.tags
                THEN /\ Cardinality(PositionsOf(id, k)) = 1
                     /\ \A i \in PositionsOf(id, k) : tags[i][2][1] = stored.tags[k]
                ELSE PositionsOf(id, k) = {}
    /\ \A k \in StorageTagKeys, v \in TagValues :
          NoDuplicates(search_records(records, tags, k, v))

(* A stored record was overwritten and a search finds two stored records *)
(* under one tag.                                                         *)
C36_Witness ==
    /\ last.op \in {"add_or_update_record", "update_record"}
    /\ last.result = Ok
    /\ last.existed
    /\ Cardinality(DOMAIN records) >= 2
    /\ \E k \in StorageTagKeys, v \in TagValues :
          Len(search_records(records, tags, k, v)) >= 2


(***************************************************************************)
(* One dispatch per send_message, checked under SpecFramework.             *)
(***************************************************************************)
(* C37: in the framework messaging service one send_message call hands the *)
(* envelope to at most one transport, the first protocol of the tried list *)
(* that is registered, and it returns Ok only if the envelope was handed   *)
(* to a transport.                                                         *)
C37_SingleDispatch ==
    last.op = "send_message" =>
        LET tried == IF last.value = None THEN PREFERRED_PROTOCOL_ORDER ELSE last.value[1]
            registered == SelectSeq(tried, LAMBDA protocol : protocol \in transports)
            sends == SelectSeq(calls, LAMBDA c : c.call = "Transport::send_message")
        IN /\ Len(sends) <= 1
           /\ sends # <<>> => (registered # <<>> /\ sends[1].args[1] = registered[1])
           /\ last.result = Ok => Len(sends) = 1


(***************************************************************************)
(* Reading the connection record, checked under SpecMessaging.             *)
(***************************************************************************)
(* C38: send_message by connection id fails with ConnectionRecordNotFound  *)
(* if and only if the connection repository holds no record under that id; *)
(* a storage error while reading a record that is stored (a                *)
(* Deserialization error) is reported as a different error.                *)
C38_NotFoundOnlyWhenAbsent ==
    last.op = "send_message" =>
        /\ (last.result[1] = "ConnectionRecordNotFound") <=> ~last.existed
        /\ \A connection_id \in DOMAIN records, env \in Environments :
              env.fault # None =>
                 LET out == send_message(records, "ping", connection_id, None, transports, env)
                 IN out.result # Ok /\ out.result[1] # "ConnectionRecordNotFound"


(***************************************************************************)
(* The sink ConnectionService::new leaves on the invitation service,       *)
(* checked under SpecInvitation.                                           *)
(***************************************************************************)
(* C39: ConnectionService::new registers an event receiver on the          *)
(* invitation service and discards it at once, so that right after it the  *)
(* subscriber list ends with a sink whose receiver is gone; and after every *)
(* emit_event of the invitation service the subscriber list holds no sink  *)
(* whose receiver had been dropped before that emit, the sink left by      *)
(* ConnectionService::new included.                                        *)
C39_DiscardedReceiverPruned ==
    /\ last.op = "ConnectionService::new" =>
          /\ event_senders # <<>>
          /\ event_senders[Len(event_senders)] = last.value
          /\ last.value \notin DOMAIN received
    /\ (last.op = "create_invitation" /\ "emit_event" \in Names(calls)) =>
          Range(event_senders) \subseteq DOMAIN received

(* An emit_event of the invitation service has removed the sink of an      *)
(* earlier registration and delivered the event to a later subscriber.     *)
C39_Witness ==
    /\ last.op = "create_invitation"
    /\ "emit_event" \in Names(calls)
    /\ \E tx \in Range(event_senders), gone \in Subscribers :
          /\ gone < tx
          /\ gone \notin Range(event_senders)
          /\ received[tx] # <<>>


(***************************************************************************)
(* Failure of request_connection, checked under SpecConnection.            *)
(***************************************************************************)
(* The step of request_connection that fails first under the answers of a  *)
(* run, "none" when every step succeeds.                                   *)
FailingStep(run, trs) ==
    IF run.env.peer_did = None THEN "create_peer_did_4"
    ELSE IF invitation_get_first_did_service(run.invitation)[1] # "Ok"
    THEN "invitation_get_first_did_service"
    ELSE IF invitation_get_acceptable_did_exchange_version(run.invitation)[1] # "Ok"
    THEN "invitation_get_acceptable_did_exchange_version"
    ELSE IF ~run.env.constructs THEN "GenericDidExchange::construct_request"
    ELSE IF MessagingService_send_message("request", run.env.peer_did[1],
                                          invitation_get_first_did_service(run.invitation)[2],
                                          Some(<<"HTTP", "WS">>), trs, run.menv).result # Ok
    THEN "MessagingService::send_message"
    ELSE "none"

NothingPersisted ==
    /\ records = [i \in {} |-> <<>>]
    /\ tags = <<>>
    /\ written = [i \in Ids |-> None]

(* C31: if a step of request_connection fails (the peer DID, the           *)
(* invitation's DID service or handshake version, the construction of the  *)
(* request or send_message), the call returns an error, emits no           *)
(* ConnectionEvent, leaves every subscriber's queue and the subscriber     *)
(* list as they were, and no connection record or snapshot of the state    *)
(* machine is stored.                                                      *)
C31_FailedRequest ==
    /\ [](/\ \A run \in RequestRuns, uuid \in ConnectionIds :
                LET out == request_connection(run.invitation, run.mediated, UuidString(uuid),
                                              transports, run.env, run.menv)
                IN /\ FailingStep(run, transports) # "none" => out.result # Ok
                   /\ out.result # Ok =>
                         /\ out.events = <<>>
                         /\ "ConnectionEvent" \notin Range(EmittedTypes(out.calls))
          /\ (last.op = "request_connection" /\ last.result # Ok) =>
                /\ "ConnectionEvent" \notin Range(EmittedTypes(calls))
                /\ NothingPersisted)
    /\ [][(last'.op = "request_connection" /\ last'.result # Ok) =>
              /\ received' = received
              /\ event_senders' = event_senders
              /\ UNCHANGED storagevars]_vars

(* send_message failed at the transport while a subscriber was listening:  *)
(* the request was handed to the transport and the subscriber holds        *)
(* nothing.                                                                *)
C31_Witness ==
    /\ last.op = "request_connection"
    /\ last.result = VCXFrameworkError("Transport::send_message")
    /\ "Transport::send_message" \in Names(calls)
    /\ \E rx \in Range(event_senders) : rx \in DOMAIN received /\ received[rx] = <<>>


(***************************************************************************)
(* Emission and slow consumers, checked under SpecFramework.               *)
(***************************************************************************)
(* The emit delivered `event` to every sender whose receiver exists,       *)
(* whatever that receiver already holds, kept that sender, and removed     *)
(* every sender whose receiver is gone.                                    *)
DeliversWithoutWaiting(event, out) ==
    \A tx \in Range(event_senders) :
       IF tx \in DOMAIN received
       THEN /\ tx \in Range(out.senders)
            /\ out.received[tx] = Append(received[tx], event)
       ELSE tx \notin Range(out.senders)

(* C33: emission never waits for a slow consumer: emit_event of the        *)
(* messaging service and of the connection service completes whatever      *)
(* number of earlier events a live subscriber has left unread, queueing    *)
(* the event behind them, and a sink whose receiver is closed is removed   *)
(* from the subscriber list; the channels being unbounded, no sink is ever *)
(* full.                                                                   *)
C33_EmitNeverBlocks ==
    /\ \A message \in Messages :
          LET event == OutboundMessage(message, Envelope(message, "a", "b"), "a", "b")
          IN DeliversWithoutWaiting(event, emit_event(event_senders, received, event))
    /\ LET event == ConnectionEvent(ConnectionRecord(1, 1, "Requested"))
       IN DeliversWithoutWaiting(event,
                                 ConnectionService_emit_event(event_senders, received, event))
    /\ (last.op = "send_message" /\ EmittedTypes(calls) # <<>>) =>
          \A tx \in Range(event_senders) :
             /\ tx \in DOMAIN received
             /\ received[tx] # <<>>
             /\ received[tx][Len(received[tx])].type
                   = EmittedTypes(calls)[Len(EmittedTypes(calls))]

(* An emit completed for a subscriber that had left the earlier event      *)
(* unread, while the sink of a subscriber that is gone was removed.        *)
C33_Witness ==
    /\ last.op = "send_message"
    /\ EmittedTypes(calls) # <<>>
    /\ \E tx \in Range(event_senders) : Len(received[tx]) = MaxEvents
    /\ \E gone \in Subscribers : gone \notin Range(event_senders) /\ gone \notin DOMAIN received
    /\ Len(event_senders) = 1


(***************************************************************************)
(* Resolver retries while processing a Response, checked under             *)
(* SpecConnection.                                                         *)
(***************************************************************************)
(* The attempts one operation made at resolving a DID. *)
ResolverAttempts(made) == Len(SelectSeq(made, LAMBDA c : c.call = "ResolverRegistry::resolve"))

(* C34: processing a Response for a connection in state Requested resolves *)
(* the responder's DID with at most three attempts in total; the           *)
(* connection is abandoned only after a third attempt, and otherwise the   *)
(* handshake continues to Completed.                                       *)
C34_ResolverRetries ==
    [][\A rx \in DOMAIN received \cap DOMAIN received', id \in ConnectionIds :
          (/\ Delivers(last', id)
           /\ last'.value.type = "Response"
           /\ CurrentState(received[rx], id) = "Requested") =>
             /\ ResolverAttempts(calls') \in 1..3
             /\ CurrentState(received'[rx], id) \in {"Completed", "Abandoned"}
             /\ CurrentState(received'[rx], id) = "Abandoned" =>
                   ResolverAttempts(calls') = 3]_vars


(***************************************************************************)
(* Transitions out of RespondedState, checked under SpecInviter.           *)
(***************************************************************************)
(* C40: in the mediated-connection inviter state machine the only          *)
(* transitions out of RespondedState are to InitialState on a ProblemReport, *)
(* the new state carrying that problem report, and to CompletedState,      *)
(* which keeps the DID document of the responded state and takes its       *)
(* thread id from the signed response.                                     *)
C40_RespondedTransitions ==
    /\ [](/\ inviter.state \in {"RespondedState", "InitialState", "CompletedState"}
          /\ inviter.state = "RespondedState" <=> last.op = "new"
          /\ inviter.state = "InitialState" <=> last.op = "InitialState::from"
          /\ inviter.state = "CompletedState" <=> last.op = "CompletedState::from"
          /\ inviter.state = "InitialState" =>
                inviter.problem_report = Some(last.value.problem_report)
          /\ inviter.state = "CompletedState" =>
                /\ inviter.did_doc = last.value.state.did_doc
                /\ inviter.thread_id
                      = Some(get_thread_id(last.value.state.signed_response)))
    /\ [][(inviter.state = "RespondedState" /\ inviter' # inviter) =>
             \/ \E problem_report \in ProblemReports :
                   inviter' = InitialState_new(Some(problem_report))
             \/ /\ inviter'.state = "CompletedState"
                /\ inviter'.did_doc = inviter.did_doc
                /\ inviter'.thread_id = Some(get_thread_id(inviter.signed_response))]_vars

(* The inviter completed from a response whose thread id is not its own    *)
(* message id.                                                             *)
C40_Witness ==
    /\ inviter.state = "CompletedState"
    /\ last.op = "CompletedState::from"
    /\ last.value.state.signed_response.thread.thid # None
    /\ inviter.thread_id # Some(last.value.state.signed_response.id)


(***************************************************************************)
(* Tasks that share one ConnectionService (framework.rs,                   *)
(* connection_service.rs)                                                  *)
(***************************************************************************)
(* Bound: the tasks that call the service concurrently. *)
MaxTasks == 2

Tasks == 1..MaxTasks

(* The methods of ConnectionService that take &mut self and return a       *)
(* result: a task reaches them through the guard of the service's mutex.   *)
ServiceMethods == {"request_connection", "handle_request_and_await"}

(* A task is idle, waits in Mutex::lock ("lock"), or is inside the method  *)
(* at the await it is suspended on (for a method without an await, at the  *)
(* method itself).                                                         *)
Idle == [pc |-> "idle", method |-> "none"]

InTurn(tsks, task) == tsks[task].pc \notin {"idle", "lock"}

(* Mutex::lock on Arc<Mutex<ConnectionService>>: returns the guard once no *)
(* other task holds one; the guard is borrowed by the method's future and  *)
(* lives until the call has returned.                                      *)
Mutex_lock_unguarded(tsks, task) == TRUE

Mutex_lock(tsks, task) == \A other \in DOMAIN tsks \ {task} : ~InTurn(tsks, other)

(* AriesFrameworkVCX::initialize, with the tasks that share the framework  *)
InitTurns ==
    /\ owner = "ConnectionService"
    /\ records = [i \in {} |-> <<>>]
    /\ tags = <<>>
    /\ written = [i \in Ids |-> None]
    /\ last = Call("new", NoId, FALSE, Ok, <<>>)
    /\ transports = register_transport({}, "HTTP")
    /\ calls = <<>>
    /\ event_senders = <<>>
    /\ received = <<>>
    /\ tasks = [task \in Tasks |-> Idle]
    /\ inviter = <<>>

(* The steps of request_connection that may fail, "none" for a call in    *)
(* which none does, and one run of request_connection for each: how the   *)
(* tasks interleave does not depend on what the call is given.            *)
RequestSteps ==
    {"create_peer_did_4", "invitation_get_first_did_service",
     "invitation_get_acceptable_did_exchange_version",
     "GenericDidExchange::construct_request", "MessagingService::send_message", "none"}

TurnRuns ==
    {CHOOSE run \in RequestRuns : FailingStep(run, register_transport({}, "HTTP")) = step :
        step \in RequestSteps}

(* A task calls connection_service.lock() to call a method. *)
Spawn(task) ==
    /\ tasks[task].pc = "idle"
    /\ \E method \in ServiceMethods :
          tasks' = [tasks EXCEPT ![task] = [pc |-> "lock", method |-> method]]
    /\ UNCHANGED <<storagevars, msgvars, last, inviter>>

(* The task gets the guard and the method runs to its first await. *)
Lock(task) ==
    /\ tasks[task].pc = "lock"
    /\ Mutex_lock(tasks, task)
    /\ tasks[task].method = "request_connection" =>
          /\ NewUuids(received) # {}
          /\ \A rx \in DOMAIN received : Len(received[rx]) < MaxEvents
    /\ tasks' = [tasks EXCEPT ![task].pc =
                    IF tasks[task].method = "request_connection"
                    THEN "create_peer_did_4"
                    ELSE "handle_request_and_await"]
    /\ UNCHANGED <<storagevars, msgvars, last, inviter>>

(* The method suspends on its next await. *)
Await(task, step) ==
    /\ tasks' = [tasks EXCEPT ![task].pc = step]
    /\ UNCHANGED <<storagevars, msgvars, last, inviter>>

(* request_connection returns what the run gives: the event, if any, is    *)
(* emitted, and the guard is dropped.                                      *)
Return(task, run) ==
    \E uuid \in ConnectionIds :
       LET out == request_connection(run.invitation, run.mediated, UuidString(uuid),
                                     transports, run.env, run.menv)
           emitted == IF out.events = <<>>
                      THEN [senders |-> event_senders, received |-> received]
                      ELSE ConnectionService_emit_event(event_senders, received,
                                                        out.events[1])
       IN /\ out.events # <<>> => uuid \in NewUuids(received)
          /\ out.events = <<>> => uuid = 1
          /\ last' = Call("request_connection", NoId, FALSE, out.result,
                          [invitation_id |-> run.invitation.id, mediated |-> run.mediated])
          /\ calls' = out.calls
          /\ event_senders' = emitted.senders
          /\ received' = emitted.received
          /\ tasks' = [tasks EXCEPT ![task] = Idle]
          /\ UNCHANGED <<storagevars, transports, inviter>>

(* create_peer_did_4 completes: on success the DID service and the version *)
(* are read from the invitation and construct_request is awaited.          *)
ResumeCreatePeerDid(task) ==
    /\ tasks[task].pc = "create_peer_did_4"
    /\ \E run \in TurnRuns :
          IF FailingStep(run, transports)
                \in {"create_peer_did_4", "invitation_get_first_did_service",
                     "invitation_get_acceptable_did_exchange_version"}
          THEN Return(task, run)
          ELSE Await(task, "GenericDidExchange::construct_request")

(* construct_request completes: on success send_message is awaited under   *)
(* the guard of the messaging service.                                     *)
ResumeConstructRequest(task) ==
    /\ tasks[task].pc = "GenericDidExchange::construct_request"
    /\ \E run \in TurnRuns :
          IF FailingStep(run, transports) = "GenericDidExchange::construct_request"
          THEN Return(task, run)
          ELSE /\ FailingStep(run, transports) \in {"MessagingService::send_message", "none"}
               /\ Await(task, "MessagingService::send_message")

(* send_message completes: the record is built, the event emitted and the  *)
(* call returns.                                                           *)
ResumeSendMessage(task) ==
    /\ tasks[task].pc = "MessagingService::send_message"
    /\ \E run \in TurnRuns :
          /\ FailingStep(run, transports) \in {"MessagingService::send_message", "none"}
          /\ Return(task, run)

(* handle_request_and_await has no await: it returns Ok(()). *)
ReturnHandleRequestAndAwait(task) ==
    /\ tasks[task].pc = "handle_request_and_await"
    /\ \E invitation_id \in {UuidString(MaxId)} :
          LET out == handle_request_and_await(invitation_id)
          IN /\ last' = Call("handle_request_and_await", NoId, FALSE, out.result,
                             invitation_id)
             /\ calls' = out.calls
    /\ tasks' = [tasks EXCEPT ![task] = Idle]
    /\ UNCHANGED <<storagevars, transports, event_senders, received, inviter>>

(* register_event_receiver takes &mut self as well: a subscriber registers *)
(* while no task is inside a method.                                       *)
LockedRegisterEventReceiver ==
    /\ \A task \in Tasks : ~InTurn(tasks, task)
    /\ RegisterEventReceiver

NextTurns ==
    \/ \E task \in Tasks : Spawn(task)
    \/ \E task \in Tasks : Lock(task)
    \/ \E task \in Tasks : ResumeCreatePeerDid(task)
    \/ \E task \in Tasks : ResumeConstructRequest(task)
    \/ \E task \in Tasks : ResumeSendMessage(task)
    \/ \E task \in Tasks : ReturnHandleRequestAndAwait(task)
    \/ LockedRegisterEventReceiver

(* Tasks that call one ConnectionService through its mutex. *)
SpecTurns == InitTurns /\ [][NextTurns]_vars

(***************************************************************************)
(* Turns of the connection service, checked under SpecTurns.               *)
(***************************************************************************)
(* C32: a task holds the lock of the ConnectionService from the start of a *)
(* method to its return, the emission of the event included: no two tasks  *)
(* are inside a method of the same service at once, a task enters a method *)
(* only when no other task is inside one, and between a task's entry and   *)
(* its return no other task's call makes a step or emits an event.         *)
C32_TurnsDoNotInterleave ==
    /\ [](\A task, other \in Tasks :
             (InTurn(tasks, task) /\ InTurn(tasks, other)) => task = other)
    /\ [][/\ \A task \in Tasks :
                (~InTurn(tasks, task) /\ InTurn(tasks', task)) =>
                   \A other \in Tasks \ {task} : ~InTurn(tasks, other)
          /\ \A task \in Tasks :
                (InTurn(tasks, task) /\ InTurn(tasks', task)) =>
                   /\ \A other \in Tasks \ {task} :
                         tasks'[other].pc \in {"idle", "lock"}
                   /\ \A rx \in DOMAIN received \cap DOMAIN received' :
                         received'[rx] = received[rx]
          /\ (\E rx \in DOMAIN received \cap DOMAIN received' :
                 Len(received'[rx]) > Len(received[rx])) =>
                \E task \in Tasks : InTurn(tasks, task) /\ tasks'[task] = Idle]_vars

(* A second request_connection waits for the lock while the first is       *)
(* suspended on send_message, after an earlier call has returned Ok.       *)
C32_Witness ==
    \E task, other \in Tasks :
       /\ tasks[task].pc = "MessagingService::send_message"
       /\ tasks[other] = [pc |-> "lock", method |-> "request_connection"]
       /\ last.op = "request_connection"
       /\ last.result = Ok

====
